---- MODULE Spec2Model ----
(***************************************************************************)
(* BeeRef persistence engine (beeref/fileio/sql.py, class SQLiteIO) with   *)
(* the scene it reads into and writes from, the archive file it works on   *)
(* and the worker signals it emits.                                        *)
(*                                                                         *)
(* One archive path is modelled.  An item's geometry (x, y, z, scale,      *)
(* rotation, flip) is the record [x, flip]: x stands for the five REAL     *)
(* columns, which the code copies verbatim, flip is the INTEGER column.    *)
(* None is 0 for save_id / original_save_id (sqlite row ids start at 1).   *)
(***************************************************************************)
EXTENDS Integers, Sequences, FiniteSets, TLC

\* ------------------------------------------------------------------ bounds
MaxItems == 2      \* items the user adds to the scene
MaxId == 3         \* largest row id the archive hands out
MaxEdits == 2      \* changes to the scene or the file between the runs
MaxCalls == 3      \* flip requests made to one Error item
MaxLen == 3        \* items in a list that is sorted
MaxRows == 2       \* rows of an archive that is loaded
MaxWorkers == 2    \* write workers of the view that run at a time

\* --------------------------------------------------------- program constants
max_retries == 2
USER_VERSION == 2
FILENAME == "doc.bee"

ItemTypes == {"pixmap", "text", "draw", "gif"}
ErrorTYPE == "error"
Geos == {[x |-> 0, flip |-> 1], [x |-> 1, flip |-> -1]}
NewGeo == [x |-> 0, flip |-> 1]
EmptyFn == [i \in {} |-> 0]

VARIABLES
    \* scene
    items,        \* live items, in items_for_save() order
    queue,        \* deferred queue filled by add_item_later
    \* archive file at FILENAME
    fileExists, hasSchema, user_version, items_tbl, sqlar_tbl,
    \* SQLiteIO instance of the current run
    op, pc, create_new, readonly, worker, conn, tmpdir, attempts,
    to_delete, to_save, idx, rows, exc,
    \* worker (ThreadedIO) and the interactive thread
    canceled, events, delivered, raised,
    \* environment
    edits,
    \* history of the current run (never read by the program)
    file0, fetched, deleted, migFailed, tries, enq, migLog,
    \* history of the session: the row ids that the Error items loaded from
    \* the present archive file stand for
    protected,
    \* BeeGraphicsView: its filename ("" is None) and undo_stack.isClean()
    view,
    \* the write workers that do_save() has started and that still run
    workers,
    \* the last call of a function of items.py, gif_item.py or sql.py that
    \* works on its arguments alone
    call,
    \* one BeeGifItem with the single-shot timers it has scheduled
    gif,
    \* one BeePixmapItem in a scene, with the scene's undo stack
    crop,
    \* the drawing mode of the view, with the scene's items and undo stack
    draw

sceneVars == <<items, queue>>
fileVars == <<fileExists, hasSchema, user_version, items_tbl, sqlar_tbl>>
ioVars == <<op, create_new, readonly, worker, conn, tmpdir, attempts,
            to_delete, to_save, idx, rows, exc>>
workerVars == <<canceled, events, delivered, raised>>
histVars == <<file0, fetched, deleted, migFailed, tries, enq, migLog>>
engineVars == <<sceneVars, fileVars, ioVars, pc, workerVars, edits,
                histVars, protected>>
uiVars == <<gif, crop, draw>>
auxVars == <<workers, call, uiVars>>
vars == <<engineVars, view, auxVars>>

\* ------------------------------------------------------------------ helpers
Max(S) == IF S = {} THEN 0 ELSE CHOOSE m \in S : \A n \in S : n <= m
Range(s) == {s[i] : i \in DOMAIN s}
Restrict(f, S) == [k \in (DOMAIN f) \cap S |-> f[k]]
Put(f, k, v) == [j \in (DOMAIN f) \cup {k} |-> IF j = k THEN v ELSE f[j]]
RemoveAt(s, i) == SubSeq(s, 1, i - 1) \o SubSeq(s, i + 1, Len(s))

FileState == [exists |-> fileExists, schema |-> hasSchema,
              version |-> user_version, items |-> items_tbl,
              sqlar |-> sqlar_tbl]

\* worker signals
BeginEv(n) == [sig |-> "begin_processing", arg |-> n, filename |-> "",
               errors |-> <<>>]
ProgressEv(i) == [sig |-> "progress", arg |-> i, filename |-> "",
                  errors |-> <<>>]
FinishedEv(f, errs) == [sig |-> "finished", arg |-> 0, filename |-> f,
                        errors |-> errs]
Emit(evs) == IF worker THEN events \o evs ELSE events

\* ------------------------------------------------------------ scene (scene.py)
Item(t, sid, osid, g) ==
    [type |-> t, save_id |-> sid, original_save_id |-> osid, geo |-> g]

\* items_for_save(): the positions of the live items that are persisted
items_for_save ==
    LET F[n \in 0..Len(items)] ==
          IF n = 0 THEN <<>>
          ELSE IF items[n].type # ErrorTYPE THEN Append(F[n - 1], n)
               ELSE F[n - 1]
    IN F[Len(items)]

items_by_type(t) == {i \in DOMAIN items : items[i].type = t}

clear_save_ids(its) ==
    [i \in DOMAIN its |->
        IF its[i].type # ErrorTYPE THEN [its[i] EXCEPT !.save_id = 0]
        ELSE its[i]]

\* BeeItemMixin.update_from_data / BeeErrorItem.update_from_data applied to
\* the item that create_from_data built (flip() = 1 on a new item)
do_flip(f) == 0 - f

\* (variant in which an Error item takes the flip of its data as the other
\* items do, for C26)
update_from_data_FlipsError(d) ==
    Item(d.type, IF d.type = ErrorTYPE THEN 0 ELSE d.save_id,
         IF d.type = ErrorTYPE THEN d.save_id ELSE 0,
         [x |-> d.x, flip |-> IF d.flip # 1 THEN do_flip(1) ELSE 1])

update_from_data(d) ==
    IF d.type = ErrorTYPE
    THEN Item(ErrorTYPE, 0, d.save_id, [x |-> d.x, flip |-> 1])
    ELSE Item(d.type, d.save_id, 0,
              [x |-> d.x, flip |-> IF d.flip # 1 THEN do_flip(1) ELSE 1])

add_queued_items ==
    items \o [i \in DOMAIN queue |-> update_from_data(queue[i])]

\* the row ids of the queued data that become Error items
QueuedErrors ==
    {queue[i].save_id : i \in {j \in DOMAIN queue : queue[j].type = ErrorTYPE}}

\* ------------------------------------------------------------- archive rows
NewRowId == Max(DOMAIN items_tbl) + 1
Row(it) == [type |-> it.type, x |-> it.geo.x, flip |-> it.geo.flip]


\* history of the last _migrate() call of the run: the version found, the
\* versions whose steps were executed, the version left in the store the
\* connection works on, and whether the call returned
MigLog(from, steps, to, ok) ==
    [from |-> from, steps |-> steps, to |-> to, ok |-> ok]

NoMigLog == MigLog(0, <<>>, 0, FALSE)

\* BeeGraphicsView.__init__: no filename, an empty undo stack (which is
\* clean); clear_scene() brings both back.
NewView == [filename |-> "", clean |-> TRUE]

clear_scene == NewView

\* undo_stack.push(command) leaves the clean state
undo_stack_push(v) == [v EXCEPT !.clean = FALSE]

NoCall == [fn |-> "none"]

\* Bounds of the animation: frames of a GIF, single-shot timers pending at
\* one time
MaxFrames == 3
MaxTimers == 3

Frames == 0..(MaxFrames - 1)

\* BeeGifItem.__init__ without a file: no movie, not playing, frame 0.  ticks
\* counts the pending single shots of _on_animation_tick, shows[n] those of
\* the closure show_next bound to next_frame n; last names the operation
\* that ran last (never read by the program).
NoGif ==
    [movie |-> FALSE, is_playing |-> FALSE, current_frame |-> 0,
     frame_count |-> 0, speed |-> 1, ticks |-> 0,
     shows |-> [n \in Frames |-> 0], last |-> "init"]

\* Bounds of the crop mode: side of a pixmap in pixels, commands on the undo
\* stack
MaxSide == 2
MaxUndo == 1

QRectF(l, t, r, b) == [l |-> l, t |-> t, r |-> r, b |-> b]
NoRect == [none |-> TRUE]
NoPoint == [none |-> TRUE]

\* BeePixmapItem.__init__ with a null image, in a scene with an empty undo
\* stack: not in crop mode (crop_temp and the drag state do not exist yet);
\* last is the event handled last (never read by the program).
NoCrop ==
    [width |-> 0, height |-> 0, crop |-> QRectF(0, 0, 0, 0),
     crop_mode |-> FALSE, crop_temp |-> NoRect, crop_mode_move |-> "None",
     crop_mode_event_start |-> NoPoint, scene_crop_item |-> FALSE,
     undo_stack |-> <<>>, last |-> [op |-> "init"]]

\* Bounds of the drawing mode: draw items started, points of one stroke,
\* largest coordinate of the mouse
MaxStrokes == 2
MaxPoints == 4
MaxPos == 2

NoPath == [none |-> TRUE]

\* BeeGraphicsView.__init__: not in drawing mode, no stroke, an empty scene
\* and undo stack.  current_draw_item is the number of the item (0: None),
\* item_pos the position of the item started last; pressed (the left button
\* is down), created and removed (the items started, and removed by the
\* view) are never read by the program.
NoDraw ==
    [drawing_mode |-> FALSE, current_draw_item |-> 0, drawing_path |-> NoPath,
     drawing_points |-> <<>>, item_pos |-> 0, scene |-> {},
     undo_stack |-> <<>>, pressed |-> FALSE, created |-> 0, removed |-> {}]

\* --------------------------------------------------------------------- Init
\* No run is active.  The path holds either no file or an archive with one
\* image row, written by an older release (user_version below USER_VERSION)
\* or by a newer one (above).
NoRun ==
    /\ items = <<>> /\ queue = <<>>
    /\ op = "none" /\ pc = "idle"
    /\ create_new = FALSE /\ readonly = FALSE /\ worker = FALSE
    /\ conn = FALSE /\ tmpdir = FALSE /\ attempts = 0
    /\ to_delete = {} /\ to_save = <<>> /\ idx = 0 /\ rows = <<>>
    /\ exc = "none"
    /\ canceled = FALSE /\ events = <<>> /\ delivered = 0 /\ raised = FALSE
    /\ edits = 0
    /\ file0 = FileState /\ fetched = {} /\ deleted = {}
    /\ migFailed = FALSE /\ tries = 0 /\ enq = <<>>
    /\ migLog = NoMigLog
    /\ protected = {}
    /\ view = NewView
    /\ workers = {}
    /\ call = NoCall
    /\ gif = NoGif
    /\ crop = NoCrop
    /\ draw = NoDraw

Init ==
    /\ \/ /\ fileExists = FALSE /\ hasSchema = FALSE /\ user_version = 0
          /\ items_tbl = EmptyFn /\ sqlar_tbl = EmptyFn
       \/ /\ fileExists = TRUE /\ hasSchema = TRUE
          /\ user_version \in {USER_VERSION - 1, USER_VERSION + 1}
          /\ items_tbl = [i \in {1} |-> [type |-> "pixmap", x |-> 0, flip |-> 1]]
          /\ sqlar_tbl = [i \in {1} |-> "ok"]
    /\ NoRun

\* The items and the view alone: no archive at the path, no run.
UiInit == Init /\ ~fileExists

\* (variant in which on_items_loaded is not connected, for C30)
HasSlot_NoProgress(e) == e.sig = "finished"

\* The emitted signals that a slot of the view has still to handle.
HasSlot(e) == e.sig = "finished" \/ (op = "read" /\ e.sig = "progress")

Pending == {n \in (delivered + 1)..Len(events) : HasSlot(events[n])}

\* No run is active.
Idle == pc = "idle"

CanEdit == Idle /\ edits < MaxEdits

\* --------------------------------------------------- the user and the file
\* Insert a new item (save_id None).  The insert actions do not fix the
\* item's z value against those of the items in the scene: it comes below
\* them all or above them all in the stacking order that items_for_save()
\* follows.
AddItem(t, top) ==
    /\ CanEdit /\ edits' = edits + 1 /\ Len(items) < MaxItems
    /\ items' = IF top THEN Append(items, Item(t, 0, 0, NewGeo))
                ELSE <<Item(t, 0, 0, NewGeo)>> \o items
    /\ UNCHANGED <<queue, fileVars, ioVars, pc, workerVars, histVars,
                   protected>>
    /\ view' = undo_stack_push(view)
    /\ UNCHANGED auxVars

\* Delete an item from the scene.
RemoveItem(i) ==
    /\ CanEdit /\ edits' = edits + 1 /\ i \in DOMAIN items
    /\ items' = RemoveAt(items, i)
    /\ protected' = IF items[i].type = ErrorTYPE
                    THEN protected \ {items[i].original_save_id}
                    ELSE protected
    /\ UNCHANGED <<queue, fileVars, ioVars, pc, workerVars, histVars>>
    /\ view' = undo_stack_push(view)
    /\ UNCHANGED auxVars

\* Move and flip an item; BeeErrorItem.do_flip is a no-op.
Transform(i, g) ==
    /\ CanEdit /\ edits' = edits + 1 /\ i \in DOMAIN items
    /\ LET g2 == IF items[i].type = ErrorTYPE
                 THEN [x |-> g.x, flip |-> items[i].geo.flip] ELSE g
       IN /\ g2 # items[i].geo
          /\ items' = [items EXCEPT ![i].geo = g2]
    /\ UNCHANGED <<queue, fileVars, ioVars, pc, workerVars, histVars,
                   protected>>
    /\ view' = undo_stack_push(view)
    /\ UNCHANGED auxVars

\* The stored image bytes of a row get damaged on disk between two runs.
CorruptBlob(k) ==
    /\ CanEdit /\ edits' = edits + 1
    /\ fileExists /\ k \in DOMAIN sqlar_tbl /\ sqlar_tbl[k] = "ok"
    /\ sqlar_tbl' = [sqlar_tbl EXCEPT ![k] = "bad"]
    /\ UNCHANGED <<sceneVars, fileExists, hasSchema, user_version, items_tbl,
                   ioVars, pc, workerVars, histVars, protected>>
    /\ UNCHANGED <<view, auxVars>>

\* SQLiteIO.__init__ and the reset of the run's history.
NewIO(o, cn, ro, w, firstpc) ==
    /\ op' = o /\ pc' = firstpc
    /\ create_new' = cn /\ readonly' = ro /\ worker' = w
    /\ conn' = FALSE /\ tmpdir' = FALSE /\ attempts' = 0
    /\ to_delete' = {} /\ to_save' = <<>> /\ idx' = 0 /\ rows' = <<>>
    /\ exc' = "none"
    /\ canceled' = FALSE /\ events' = <<>> /\ delivered' = 0 /\ raised' = FALSE
    /\ file0' = FileState /\ fetched' = {} /\ deleted' = {}
    /\ migFailed' = FALSE /\ tries' = 0 /\ enq' = <<>>
    /\ migLog' = NoMigLog

\* A load of the archive (create_new=False): the scene is cleared, then
\* read() runs on a new engine.
StartRead(ro, w) ==
    /\ Idle /\ queue = <<>>
    /\ items' = <<>> /\ queue' = queue
    /\ NewIO("read", FALSE, ro, w, "r_conn")
    /\ protected' = {}
    /\ UNCHANGED <<fileVars, edits>>
    /\ view' = clear_scene
    /\ UNCHANGED auxVars

\* A save: write() runs on a new engine.
StartWrite(cn, ro, w) ==
    /\ Idle /\ queue = <<>>
    /\ ~(cn /\ ro)
    /\ cn \/ ro \/ Max(DOMAIN items_tbl)
                   + Cardinality({i \in DOMAIN items : items[i].save_id = 0})
                   <= MaxId
    /\ NewIO("write", cn, ro, w, "w_begin")
    /\ UNCHANGED <<sceneVars, fileVars, edits, protected>>
    /\ UNCHANGED <<view, auxVars>>

\* The run has ended and its signals are handled: the engine, the worker
\* and the progress dialog are dropped.  A caller that ran read() without
\* a worker drains the deferred queue itself.
Close ==
    /\ pc = "done" /\ Pending = {}
    /\ NewIO("none", FALSE, FALSE, FALSE, "idle")
    /\ items' = add_queued_items /\ queue' = <<>>
    /\ protected' = protected \cup QueuedErrors
    /\ UNCHANGED <<fileVars, edits>>
    /\ UNCHANGED <<view, auxVars>>

\* The user presses Cancel in the progress dialog.  The flag is read only
\* in the item loop and the row loop, so pressing it earlier in the run is
\* pressing it before the first pass.
Cancel ==
    /\ worker /\ pc \in {"w_loop", "r_loop"} /\ ~canceled
    /\ canceled' = TRUE
    /\ UNCHANGED <<sceneVars, fileVars, ioVars, pc, events, delivered, raised,
                   edits, histVars, protected>>
    /\ UNCHANGED <<view, auxVars>>


\* ------------------------------------------------- SQLiteIO: the connection
\* exc is the exception in flight ("none" once it is handled).

\* _establish_connection, called with no connection; the run goes on at okpc
\* when it returns and at failpc, with sqlite3.Error raised, when it raises.
\*  - create_new and not readonly: a file at the path is removed;
\*  - create_new: scene.clear_save_ids();
\*  - sqlite3.connect: mode=rw (readonly) needs the file, the default mode
\*    creates an empty one;
\*  - not create_new: _migrate().  When it raises, create_new becomes True,
\*    the connection is dropped and the nested _establish_connection() call
\*    raises 'Connection establishment already in progress' at its guard.
\* (variant that never removes the file, for C15)
os_remove_Never == FALSE

\* `if create_new and not readonly and os.path.exists(filename): os.remove`
os_remove == create_new /\ ~readonly /\ fileExists

\* (variant that runs MIGRATIONS[i] where MIGRATIONS[i + 1] is due, for C13)
_migrate_OffByOne(version) ==
    [i \in 1..(USER_VERSION - version) |-> version + i - 1]

\* _migrate(): the versions whose MIGRATIONS steps are executed, in order,
\* between BEGIN TRANSACTION and the commit; none when version is not below
\* USER_VERSION.
_migrate(version) ==
    [i \in 1..(USER_VERSION - version) |-> version + i]

\* (variant that migrates the file at the path also when it works on a
\* copy, for C16)
VersionAfterMigrate_InPlace(copy, version) == USER_VERSION

\* The user_version of the file at the path after a _migrate() that ran its
\* steps: write_meta() goes to the temporary copy when there is one.
VersionAfterMigrate(copy, version) ==
    IF copy THEN version ELSE USER_VERSION

_establish_connection(okpc, failpc) ==
    LET rm == os_remove
        ex1 == fileExists /\ ~rm
        sch1 == hasSchema /\ ~rm
        ver1 == IF rm \/ ~fileExists THEN 0 ELSE user_version
        tbl1 == IF rm THEN EmptyFn ELSE items_tbl
        sq1 == IF rm THEN EmptyFn ELSE sqlar_tbl
        items1 == IF create_new THEN clear_save_ids(items) ELSE items
    IN
    /\ ~conn
    /\ items' = items1 /\ items_tbl' = tbl1 /\ sqlar_tbl' = sq1
    /\ hasSchema' = sch1
    /\ protected' = IF rm THEN {} ELSE protected
    /\ \/ \* sqlite3.connect raises (it always does when mode=rw finds no file)
          /\ fileExists' = ex1 /\ user_version' = ver1
          /\ conn' = FALSE /\ exc' = "sqlite3.Error" /\ pc' = failpc
          /\ UNCHANGED <<create_new, tmpdir, migFailed, migLog>>
       \/ \* connected; create_new: _migrate() is not called
          /\ ~(readonly /\ ~ex1)
          /\ create_new
          /\ fileExists' = TRUE /\ user_version' = ver1
          /\ conn' = TRUE /\ pc' = okpc
          /\ UNCHANGED <<create_new, tmpdir, migFailed, exc, migLog>>
       \/ \* connected; _migrate() finds the version current and returns
          /\ ~(readonly /\ ~ex1)
          /\ ~create_new /\ ver1 >= USER_VERSION
          /\ fileExists' = TRUE /\ user_version' = ver1
          /\ conn' = TRUE /\ pc' = okpc
          /\ migLog' = MigLog(ver1, _migrate(ver1), ver1, TRUE)
          /\ UNCHANGED <<create_new, tmpdir, migFailed, exc>>
       \/ \* connected; _migrate() runs the pending steps
          /\ ~(readonly /\ ~ex1)
          /\ ~create_new /\ ver1 < USER_VERSION
          /\ fileExists' = TRUE
          /\ \E copy \in {c \in BOOLEAN : c => readonly}, ok \in BOOLEAN :
               \* copy: the file is not writable, a temporary copy is migrated
               /\ tmpdir' = copy
               /\ IF ok
                  THEN /\ user_version' = VersionAfterMigrate(copy, ver1)
                       /\ migLog' = MigLog(ver1, _migrate(ver1),
                                           USER_VERSION, TRUE)
                       /\ conn' = TRUE /\ pc' = okpc
                       /\ UNCHANGED <<create_new, migFailed, exc>>
                  ELSE \* a step raises: nothing is committed
                       /\ user_version' = ver1
                       /\ migLog' = MigLog(ver1, <<>>, ver1, FALSE)
                       /\ create_new' = TRUE /\ migFailed' = TRUE
                       /\ conn' = FALSE /\ exc' = "sqlite3.Error"
                       /\ pc' = failpc
    /\ UNCHANGED edits
    /\ UNCHANGED <<queue, op, readonly, worker, attempts, to_delete, to_save,
                   idx, rows, workerVars, file0, fetched, deleted, enq>>

\* (variant that leaves the connection open, for C17)
handle_sqlite_errors_NoClose ==
    /\ pc = "handler"
    /\ conn' = conn /\ tmpdir' = tmpdir
    /\ events' = Emit(<<FinishedEv(FILENAME, <<exc>>)>>)
    /\ raised' = ~worker
    /\ pc' = "done"
    /\ UNCHANGED <<edits, protected>>
    /\ UNCHANGED <<sceneVars, fileVars, op, create_new, readonly, worker,
                   attempts, to_delete, to_save, idx, rows, exc, canceled,
                   delivered, histVars>>
    /\ UNCHANGED <<view, auxVars>>

\* (variant that lets the exception escape without the signal, for C7)
handle_sqlite_errors_NoSignal ==
    /\ pc = "handler"
    /\ conn' = FALSE /\ tmpdir' = FALSE
    /\ raised' = ~worker
    /\ pc' = "done"
    /\ UNCHANGED <<edits, protected>>
    /\ UNCHANGED <<sceneVars, fileVars, op, create_new, readonly, worker,
                   attempts, to_delete, to_save, idx, rows, exc, canceled,
                   events, delivered, histVars>>
    /\ UNCHANGED <<view, auxVars>>

\* handle_sqlite_errors: the except branches of the wrapper.  The open
\* transaction, if any, is rolled back, the connection is closed and the
\* failure goes to the worker's finished signal or is raised as
\* BeeFileIOError.
handle_sqlite_errors ==
    /\ pc = "handler"
    /\ conn' = FALSE /\ tmpdir' = FALSE
    /\ events' = Emit(<<FinishedEv(FILENAME, <<exc>>)>>)
    /\ raised' = ~worker
    /\ pc' = "done"
    /\ UNCHANGED <<edits, protected>>
    /\ UNCHANGED <<sceneVars, fileVars, op, create_new, readonly, worker,
                   attempts, to_delete, to_save, idx, rows, exc, canceled,
                   delivered, histVars>>
    /\ UNCHANGED <<view, auxVars>>


\* ------------------------------------------------------------ SQLiteIO.write
\* (variant without the readonly precondition, for C10)
write_NoPrecondition ==
    /\ pc = "w_begin"
    /\ exc' = exc /\ pc' = "w_conn" /\ tries' = tries + 1
    /\ attempts' = 0
    /\ UNCHANGED <<edits, protected>>
    /\ UNCHANGED <<sceneVars, fileVars, op, create_new, readonly, worker, conn,
                   tmpdir, to_delete, to_save, idx, rows, workerVars,
                   file0, fetched, deleted, migFailed, enq, migLog>>
    /\ UNCHANGED <<view, auxVars>>

\* write(): the readonly precondition, then the first pass of
\* `while attempts < max_retries: try:` is entered.
write ==
    /\ pc = "w_begin"
    /\ IF readonly
       THEN exc' = "sqlite3.OperationalError" /\ pc' = "handler"
            /\ tries' = tries
       ELSE exc' = exc /\ pc' = "w_conn" /\ tries' = tries + 1
    /\ attempts' = 0
    /\ UNCHANGED <<edits, protected>>
    /\ UNCHANGED <<sceneVars, fileVars, op, create_new, readonly, worker, conn,
                   tmpdir, to_delete, to_save, idx, rows, workerVars,
                   file0, fetched, deleted, migFailed, enq, migLog>>
    /\ UNCHANGED <<view, auxVars>>

\* The first statement of the write sequence opens the connection through
\* the cursor property.
write_connect ==
    /\ pc = "w_conn"
    /\ _establish_connection("w_schema", "w_except")
    /\ UNCHANGED tries
    /\ UNCHANGED <<view, auxVars>>

\* create_schema_on_new(): write_meta() and the SCHEMA statements.
create_schema_on_new ==
    /\ pc = "w_schema"
    /\ \/ /\ ~create_new
          /\ pc' = "w_data"
          /\ UNCHANGED fileVars
       \/ /\ create_new
          /\ hasSchema' = TRUE /\ user_version' = USER_VERSION
          /\ pc' = "w_data"
          /\ UNCHANGED <<fileExists, items_tbl, sqlar_tbl>>
    /\ UNCHANGED <<edits, protected>>
    /\ UNCHANGED <<sceneVars, op, create_new, readonly, worker, conn, tmpdir,
                   attempts, to_delete, to_save, idx, rows, exc, workerVars,
                   histVars>>
    /\ UNCHANGED <<view, auxVars>>

\* write_data(), up to the item loop: to_delete, keep, to_save,
\* begin_processing.
Keep == {items[i].original_save_id : i \in items_by_type(ErrorTYPE)}

\* (variant without the keep set, for C2)
ToDelete_NoKeep(ids, keep) == ids

ToDelete(ids, keep) == ids \ keep

write_data ==
    /\ pc = "w_data"
    /\ \/ /\ hasSchema
          /\ to_delete' = ToDelete(DOMAIN items_tbl, Keep)
          /\ fetched' = DOMAIN items_tbl
          /\ to_save' = items_for_save
          /\ events' = Emit(<<BeginEv(Len(items_for_save))>>)
          /\ idx' = 1
          /\ pc' = IF items_for_save = <<>> THEN "w_delete" ELSE "w_loop"
          /\ UNCHANGED exc
       \/ \* SELECT id FROM items raises: no such table
          /\ ~hasSchema
          /\ exc' = "sqlite3.Error" /\ pc' = "w_except"
          /\ UNCHANGED <<to_delete, fetched, to_save, events, idx>>
    /\ UNCHANGED <<edits, protected>>
    /\ UNCHANGED <<sceneVars, fileVars, op, create_new, readonly, worker, conn,
                   tmpdir, attempts, rows, canceled, delivered, raised, file0,
                   deleted, migFailed, tries, enq, migLog>>
    /\ UNCHANGED <<view, auxVars>>

\* (variant whose cancel leaves write_data past delete_items, for C12)
AfterItem_SkipDelete ==
    /\ events' = Emit(<<ProgressEv(idx - 1)>>)
    /\ IF worker /\ canceled
       THEN pc' = "w_vacuum" /\ idx' = idx
       ELSE IF idx = Len(to_save)
            THEN pc' = "w_delete" /\ idx' = idx
            ELSE pc' = "w_loop" /\ idx' = idx + 1

\* After item i: progress.emit(i), then `if self.worker.canceled: break`.
AfterItem ==
    /\ events' = Emit(<<ProgressEv(idx - 1)>>)
    /\ IF (worker /\ canceled) \/ idx = Len(to_save)
       THEN pc' = "w_delete" /\ idx' = idx
       ELSE pc' = "w_loop" /\ idx' = idx + 1

\* (variant whose UPDATE has no WHERE clause, for C19)
update_item_NoWhere(it) == [k \in DOMAIN items_tbl |-> Row(it)]

\* update_item(item): UPDATE items ... WHERE id = save_id, and commit.
update_item(it) ==
    IF it.save_id \in DOMAIN items_tbl
    THEN [items_tbl EXCEPT ![it.save_id] = Row(it)]
    ELSE items_tbl

\* One pass of the loop of write_data() for an item that has a save_id:
\* update_item(item), then to_delete.remove(item.save_id), which raises
\* KeyError when the id is not in the set.
write_update ==
    /\ pc = "w_loop"
    /\ LET it == items[to_save[idx]] IN
       /\ it.save_id # 0
       /\    /\ items_tbl' = update_item(it)
             /\ IF it.save_id \in to_delete
                THEN /\ to_delete' = to_delete \ {it.save_id}
                     /\ AfterItem
                     /\ UNCHANGED exc
                ELSE /\ exc' = "KeyError" /\ pc' = "handler"
                     /\ UNCHANGED <<to_delete, events, idx>>
    /\ UNCHANGED <<edits, protected>>
    /\ UNCHANGED <<sceneVars, fileExists, hasSchema, user_version, sqlar_tbl,
                   op, create_new, readonly, worker, conn, tmpdir, attempts,
                   to_save, rows, canceled, delivered, raised, histVars>>
    /\ UNCHANGED <<view, auxVars>>

\* insert_item(item): INSERT INTO items, item.save_id = lastrowid, for an
\* item with pixmap_to_bytes the INSERT INTO sqlar, then commit.
HasBlob(t) == t = "pixmap"

\* One pass of the loop for an item without save_id.  A statement that
\* raises before the commit leaves no row; when it is not the first one the
\* item already carries the id of the row that is rolled back.
write_insert ==
    /\ pc = "w_loop"
    /\ LET n == to_save[idx]
           it == items[n]
           id == NewRowId
       IN
       /\ it.save_id = 0
       /\ \/ /\ items_tbl' = Put(items_tbl, id, Row(it))
             /\ sqlar_tbl' = IF HasBlob(it.type) THEN Put(sqlar_tbl, id, "ok")
                             ELSE sqlar_tbl
             /\ items' = [items EXCEPT ![n].save_id = id]
             /\ AfterItem
             /\ UNCHANGED exc
          \/ /\ \/ items' = items
                \/ items' = [items EXCEPT ![n].save_id = id]
             /\ exc' = "sqlite3.Error" /\ pc' = "w_except"
             /\ UNCHANGED <<items_tbl, sqlar_tbl, events, idx>>
    /\ UNCHANGED <<edits, protected>>
    /\ UNCHANGED <<queue, fileExists, hasSchema, user_version, op, create_new,
                   readonly, worker, conn, tmpdir, attempts, to_delete, to_save,
                   rows, canceled, delivered, raised, histVars>>
    /\ UNCHANGED <<view, auxVars>>

\* (variant without the DELETE FROM sqlar, for C18)
delete_items_ItemsOnly ==
    /\ pc = "w_delete"
    /\ items_tbl' = Restrict(items_tbl, DOMAIN items_tbl \ to_delete)
    /\ sqlar_tbl' = sqlar_tbl
    /\ deleted' = to_delete \cap DOMAIN items_tbl
    /\ pc' = "w_vacuum"
    /\ UNCHANGED exc
    /\ UNCHANGED <<edits, protected>>
    /\ UNCHANGED <<sceneVars, fileExists, hasSchema, user_version, op,
                   create_new, readonly, worker, conn, tmpdir, attempts,
                   to_delete, to_save, idx, rows, workerVars, file0, fetched,
                   migFailed, tries, enq, migLog>>
    /\ UNCHANGED <<view, auxVars>>

\* delete_items(to_delete): both DELETEs and the commit.
delete_items ==
    /\ pc = "w_delete"
    /\ items_tbl' = Restrict(items_tbl, DOMAIN items_tbl \ to_delete)
    /\ sqlar_tbl' = Restrict(sqlar_tbl, DOMAIN sqlar_tbl \ to_delete)
    /\ deleted' = to_delete \cap DOMAIN items_tbl
    /\ pc' = "w_vacuum"
    /\ UNCHANGED exc
    /\ UNCHANGED <<edits, protected>>
    /\ UNCHANGED <<sceneVars, fileExists, hasSchema, user_version, op,
                   create_new, readonly, worker, conn, tmpdir, attempts,
                   to_delete, to_save, idx, rows, workerVars, file0, fetched,
                   migFailed, tries, enq, migLog>>
    /\ UNCHANGED <<view, auxVars>>

\* The end of write_data(): VACUUM, commit, finished.emit(filename, []).
write_finish ==
    /\ pc = "w_vacuum"
    /\ \/ /\ events' = Emit(<<FinishedEv(FILENAME, <<>>)>>)
          /\ pc' = "done"
          /\ UNCHANGED exc
       \/ /\ exc' = "sqlite3.Error" /\ pc' = "w_except"
          /\ UNCHANGED events
    /\ UNCHANGED <<edits, protected>>
    /\ UNCHANGED <<sceneVars, fileVars, op, create_new, readonly, worker, conn,
                   tmpdir, attempts, to_delete, to_save, idx, rows, canceled,
                   delivered, raised, histVars>>
    /\ UNCHANGED <<view, auxVars>>

\* (variant whose bound is off by one, for C9)
write_except_OffByOne ==
    /\ pc = "w_except"
    /\ attempts' = attempts + 1
    /\ IF attempts + 1 > max_retries
       THEN pc' = "handler" /\ conn' = conn /\ exc' = exc
       ELSE pc' = "w_reconn" /\ conn' = FALSE /\ exc' = "none"
    /\ UNCHANGED <<edits, protected>>
    /\ UNCHANGED <<sceneVars, fileVars, op, create_new, readonly, worker,
                   tmpdir, to_delete, to_save, idx, rows, workerVars,
                   histVars>>
    /\ UNCHANGED <<view, auxVars>>

\* `except (sqlite3.Error, IOError, OSError)` of write(): count the attempt,
\* re-raise at max_retries, else drop the connection for the retry.
write_except ==
    /\ pc = "w_except"
    /\ attempts' = attempts + 1
    /\ IF attempts + 1 >= max_retries
       THEN pc' = "handler" /\ conn' = conn /\ exc' = exc
       ELSE pc' = "w_reconn" /\ conn' = FALSE /\ exc' = "none"
    /\ UNCHANGED <<edits, protected>>
    /\ UNCHANGED <<sceneVars, fileVars, op, create_new, readonly, worker,
                   tmpdir, to_delete, to_save, idx, rows, workerVars,
                   histVars>>
    /\ UNCHANGED <<view, auxVars>>

\* self._establish_connection() in the except clause, then the second pass
\* of the loop; an error raised by it leaves write().
write_reconnect ==
    /\ pc = "w_reconn"
    /\ _establish_connection("w_schema", "handler")
    /\ tries' = IF pc' = "w_schema" THEN tries + 1 ELSE tries
    /\ UNCHANGED <<view, auxVars>>


\* ------------------------------------------------------------- SQLiteIO.read
RECURSIVE Ascending(_)
Ascending(S) ==
    IF S = {} THEN <<>>
    ELSE LET m == CHOOSE k \in S : \A n \in S : k <= n
         IN <<m>> \o Ascending(S \ {m})

\* The two SELECTs of read(): the rows that have an sqlar row, then the rows
\* of type "text".
BlobRows == (DOMAIN sqlar_tbl) \cap (DOMAIN items_tbl)

TextRows == {k \in DOMAIN items_tbl : items_tbl[k].type = "text"}

FetchRow(k, blob) ==
    [save_id |-> k, type |-> items_tbl[k].type, x |-> items_tbl[k].x,
     flip |-> items_tbl[k].flip, blob |-> blob]

FetchRows ==
    LET a == Ascending(BlobRows)
        b == Ascending(TextRows)
    IN [i \in DOMAIN a |-> FetchRow(a[i], sqlar_tbl[a[i]])]
       \o [i \in DOMAIN b |-> FetchRow(b[i], "null")]

\* The body of the row loop up to add_item_later: a pixmap whose bytes give
\* a null pixmap is handed on as type 'error' with the message as its text.
DecodeRow(row) ==
    LET null == row.type = "pixmap" /\ row.blob # "ok" IN
    [save_id |-> row.save_id,
     type |-> IF null THEN ErrorTYPE ELSE row.type,
     x |-> row.x, flip |-> row.flip,
     text |-> IF null THEN "Image could not be loaded" ELSE ""]

read_connect ==
    /\ pc = "r_conn"
    /\ _establish_connection("r_fetch", "handler")
    /\ UNCHANGED tries
    /\ UNCHANGED <<view, auxVars>>

\* read() up to the loop: both fetchall calls and begin_processing; with no
\* rows the final finished.emit follows at once.
read_fetch ==
    /\ pc = "r_fetch"
    /\ \/ /\ hasSchema
          /\ rows' = FetchRows
          /\ idx' = 1
          /\ IF FetchRows = <<>>
             THEN /\ events' = Emit(<<BeginEv(0), FinishedEv(FILENAME, <<>>)>>)
                  /\ pc' = "done"
             ELSE /\ events' = Emit(<<BeginEv(Len(FetchRows))>>)
                  /\ pc' = "r_loop"
          /\ UNCHANGED exc
       \/ \* the SELECT raises: no such table
          /\ ~hasSchema
          /\ exc' = "sqlite3.Error" /\ pc' = "handler"
          /\ UNCHANGED <<rows, idx, events>>
    /\ UNCHANGED <<edits, protected>>
    /\ UNCHANGED <<sceneVars, fileVars, op, create_new, readonly, worker, conn,
                   tmpdir, attempts, to_delete, to_save, canceled, delivered,
                   raised, histVars>>
    /\ UNCHANGED <<view, auxVars>>

\* (variant without the cancel check, for C11)
read_row_NoCancelCheck ==
    /\ pc = "r_loop"
    /\ LET data == DecodeRow(rows[idx]) IN
       /\ queue' = Append(queue, data)
       /\ enq' = Append(enq, data)
    /\ IF FALSE
       THEN /\ events' = Emit(<<ProgressEv(idx - 1), FinishedEv("", <<>>)>>)
            /\ pc' = "done" /\ idx' = idx
       ELSE IF idx = Len(rows)
            THEN /\ events' = Emit(<<ProgressEv(idx - 1),
                                     FinishedEv(FILENAME, <<>>)>>)
                 /\ pc' = "done" /\ idx' = idx
            ELSE /\ events' = Emit(<<ProgressEv(idx - 1)>>)
                 /\ pc' = "r_loop" /\ idx' = idx + 1
    /\ UNCHANGED <<edits, protected>>
    /\ UNCHANGED <<items, fileVars, op, create_new, readonly, worker, conn,
                   tmpdir, attempts, to_delete, to_save, rows, exc, canceled,
                   delivered, raised, file0, fetched, deleted,
                   migFailed, tries, migLog>>
    /\ UNCHANGED <<view, auxVars>>

\* One pass of the row loop: decode, add_item_later, progress.emit(i), the
\* cancel check; after the last row finished.emit(filename, []).
read_row ==
    /\ pc = "r_loop"
    /\ LET data == DecodeRow(rows[idx]) IN
       /\ queue' = Append(queue, data)
       /\ enq' = Append(enq, data)
    /\ IF worker /\ canceled
       THEN /\ events' = Emit(<<ProgressEv(idx - 1), FinishedEv("", <<>>)>>)
            /\ pc' = "done" /\ idx' = idx
       ELSE IF idx = Len(rows)
            THEN /\ events' = Emit(<<ProgressEv(idx - 1),
                                     FinishedEv(FILENAME, <<>>)>>)
                 /\ pc' = "done" /\ idx' = idx
            ELSE /\ events' = Emit(<<ProgressEv(idx - 1)>>)
                 /\ pc' = "r_loop" /\ idx' = idx + 1
    /\ UNCHANGED <<edits, protected>>
    /\ UNCHANGED <<items, fileVars, op, create_new, readonly, worker, conn,
                   tmpdir, attempts, to_delete, to_save, rows, exc, canceled,
                   delivered, raised, file0, fetched, deleted,
                   migFailed, tries, migLog>>
    /\ UNCHANGED <<view, auxVars>>

\* ------------------------------------------------------ the interactive thread
\* on_loading_finished(filename, errors), the view's part (the queue is
\* drained in Deliver)
on_loading_finished(v, filename, errors) ==
    IF errors # <<>> THEN v ELSE [v EXCEPT !.filename = filename]

\* (variant that takes every finished save for a success, for C22)
on_saving_finished_Always(v, filename, errors) ==
    [filename |-> filename, clean |-> TRUE]

\* on_saving_finished(filename, errors): a warning, or the filename is taken
\* over and undo_stack.setClean()
on_saving_finished(v, filename, errors) ==
    IF errors # <<>> THEN v ELSE [filename |-> filename, clean |-> TRUE]

\* The next queued signal that the view has a slot for reaches it:
\* on_items_loaded for progress of a load, on_loading_finished or
\* on_saving_finished for finished.
Deliver ==
    /\ Pending # {}
    /\ LET n == CHOOSE k \in Pending : \A j \in Pending : k <= j
           e == events[n]
       IN /\ IF op = "read" /\ (e.sig = "progress"
                                 \/ (e.sig = "finished" /\ e.errors = <<>>))
             THEN /\ items' = add_queued_items /\ queue' = <<>>
                  /\ protected' = protected \cup QueuedErrors
             ELSE UNCHANGED <<sceneVars, protected>>
          /\ delivered' = n
          /\ view' = IF e.sig # "finished" THEN view
                     ELSE IF op = "read"
                          THEN on_loading_finished(view, e.filename, e.errors)
                          ELSE on_saving_finished(view, e.filename, e.errors)
    /\ UNCHANGED edits
    /\ UNCHANGED <<fileVars, ioVars, pc, canceled, events, raised,
                   histVars>>
    /\ UNCHANGED auxVars

\* ---------------------------------------------------------------------- Next
Next ==
    \/ \E t \in ItemTypes, top \in BOOLEAN : AddItem(t, top)
    \/ \E i \in 1..(MaxId + 1) : RemoveItem(i)
    \/ \E i \in 1..(MaxId + 1), g \in Geos : Transform(i, g)
    \/ \E k \in 1..MaxId : CorruptBlob(k)
    \/ \E ro \in BOOLEAN, w \in BOOLEAN : StartRead(ro, w)
    \/ \E cn \in BOOLEAN, ro \in BOOLEAN, w \in BOOLEAN : StartWrite(cn, ro, w)
    \/ Cancel
    \/ Deliver
    \/ Close
    \/ write \/ write_connect \/ create_schema_on_new
    \/ write_data \/ write_update \/ write_insert \/ delete_items
    \/ write_finish \/ write_except \/ write_reconnect
    \/ read_connect \/ read_fetch \/ read_row
    \/ handle_sqlite_errors

Spec == Init /\ [][Next]_vars

\* ------------------------------------------------------- loads of an archive
\* The loads alone, of archives with up to MaxRows rows, under the event
\* loop of the interactive thread, which hands every queued signal to its
\* slot.
ArchiveRows ==
    {[type |-> "pixmap", x |-> 0, flip |-> 1, blob |-> b] : b \in {"ok", "bad"}}
    \cup {[type |-> "text", x |-> 1, flip |-> -1, blob |-> "null"]}

Archives == UNION {[1..n -> ArchiveRows] : n \in 0..MaxRows}

LoadInit ==
    /\ \E a \in Archives :
         /\ items_tbl = [k \in DOMAIN a |->
                            [type |-> a[k].type, x |-> a[k].x,
                             flip |-> a[k].flip]]
         /\ sqlar_tbl = [k \in {j \in DOMAIN a : a[j].type = "pixmap"} |->
                            a[k].blob]
    /\ fileExists = TRUE /\ hasSchema = TRUE
    /\ user_version \in {USER_VERSION - 1, USER_VERSION}
    /\ NoRun

\* json.loads(row[8]) raises ValueError for a row whose data column is not
\* JSON: the wrapper of read() takes over.
read_row_raises ==
    /\ pc = "r_loop"
    /\ exc' = "ValueError" /\ pc' = "handler"
    /\ UNCHANGED <<sceneVars, fileVars, op, create_new, readonly, worker, conn,
                   tmpdir, attempts, to_delete, to_save, idx, rows,
                   workerVars, edits, histVars, protected, view, auxVars>>

\* on_action_open(): the file dialog returned FILENAME; open_from_file()
\* clears the scene and starts the load on a worker, then the view takes the
\* path for its filename at once.
on_action_open(ro) ==
    /\ Idle /\ queue = <<>>
    /\ items' = <<>> /\ queue' = queue
    /\ NewIO("read", FALSE, ro, TRUE, "r_conn")
    /\ protected' = {}
    /\ UNCHANGED <<fileVars, edits>>
    /\ view' = [clear_scene EXCEPT !.filename = FILENAME]
    /\ UNCHANGED auxVars

LoadNext ==
    \/ \E ro \in BOOLEAN, w \in BOOLEAN : StartRead(ro, w)
    \/ \E ro \in BOOLEAN : on_action_open(ro)
    \/ Cancel
    \/ Deliver
    \/ Close
    \/ read_connect \/ read_fetch \/ read_row \/ read_row_raises
    \/ handle_sqlite_errors

LoadSpec == LoadInit /\ [][LoadNext]_vars /\ WF_vars(Deliver)

\* ------------------------------------- item payloads (items.py, gif_item.py)
\* The payload of an item is what get_extra_save_data() puts into the data
\* column.  A filename of None is "", opacity is in percent, a colour is its
\* '#rrggbb' name with its alpha value, a crop is <<x, y, width, height>>.
NoFilename == ""
DefaultOpacity == 100

QColor(name) == [rgb |-> name, alpha |-> 255]
ColorName(c) == c.rgb

\* the constructors, with the defaults of __init__
BeePixmapItem(filename) ==
    [type |-> "pixmap", filename |-> filename, opacity |-> DefaultOpacity,
     grayscale |-> FALSE, crop |-> <<0, 0, 0, 0>>]

BeeTextItem(text) ==
    [type |-> "text", text |-> IF text = "" THEN "Text" ELSE text]

BeeDrawItem ==
    [type |-> "draw", path |-> <<>>, pen_color |-> QColor("#ffffff"),
     pen_width |-> 8, pen_style |-> "solid"]

BeeGifItem(filename) ==
    [type |-> "gif", filename |-> filename, opacity |-> DefaultOpacity,
     current_frame |-> 0]

get_extra_save_data(it) ==
    CASE it.type = "pixmap" ->
           [filename |-> it.filename, opacity |-> it.opacity,
            grayscale |-> it.grayscale, crop |-> it.crop]
      [] it.type = "text" -> [text |-> it.text]
      [] it.type = "draw" ->
           [path |-> it.path, pen_color |-> ColorName(it.pen_color),
            pen_width |-> it.pen_width, pen_style |-> it.pen_style]
      [] it.type = "gif" ->
           [filename |-> it.filename, opacity |-> it.opacity,
            current_frame |-> it.current_frame]

\* create_from_data(data=data) of the class registered for type t; for a
\* pixmap the item is the BeePixmapItem(QImage()) that read() has built.
create_from_data(t, data) ==
    CASE t = "pixmap" ->
           LET item == BeePixmapItem(NoFilename) IN
           [item EXCEPT !.filename = IF item.filename # NoFilename
                                     THEN item.filename ELSE data.filename,
                        !.crop = data.crop,
                        !.opacity = data.opacity,
                        !.grayscale = data.grayscale]
      [] t = "text" -> BeeTextItem(data.text)
      [] t = "draw" ->
           [BeeDrawItem EXCEPT !.path = IF data.path # <<>> THEN data.path
                                        ELSE BeeDrawItem.path,
                               !.pen_color = QColor(data.pen_color),
                               !.pen_width = data.pen_width,
                               !.pen_style = data.pen_style]
      [] t = "gif" -> BeeGifItem(data.filename)

\* the items whose payload is encoded and decoded
PayloadItems ==
    {[BeePixmapItem(f) EXCEPT !.opacity = o, !.grayscale = g, !.crop = c] :
        f \in {NoFilename, "a.png"}, o \in {50, DefaultOpacity},
        g \in BOOLEAN, c \in {<<0, 0, 0, 0>>, <<1, 1, 2, 2>>}}
    \cup {[type |-> "text", text |-> t] : t \in {"", "Text", "note"}}
    \cup {[BeeDrawItem EXCEPT !.path = pts, !.pen_color = c, !.pen_width = w,
                              !.pen_style = st] :
        pts \in {<<>>, <<[x |-> 0, y |-> 0]>>,
                 <<[x |-> 0, y |-> 0], [x |-> 1, y |-> 2]>>},
        c \in {QColor("#ffffff"), [rgb |-> "#ff0000", alpha |-> 128]},
        w \in {2, 8}, st \in {"solid", "dashed"}}
    \cup {[BeeGifItem(f) EXCEPT !.opacity = o, !.current_frame = n] :
        f \in {NoFilename, "a.gif"}, o \in {50, DefaultOpacity},
        n \in {0, 1}}

\* ------------------------------------------------- is_bee_file (sql.py)
\* A path is the sequence of its characters, a file's content the sequence of
\* its bytes.
Min(a, b) == IF a <= b THEN a ELSE b
RFind(p, ch) == Max({i \in DOMAIN p : p[i] = ch})

\* os.path.splitext(path)[1]: from the last dot of the last component, when
\* a character other than a dot comes before it in that component
splitext_ext(p) ==
    LET sep == RFind(p, "/")
        dot == RFind(p, ".")
    IN IF dot > sep /\ \E i \in (sep + 1)..(dot - 1) : p[i] # "."
       THEN SubSeq(p, dot, Len(p)) ELSE <<>>

BeeExt == <<".", "b", "e", "e">>

\* b'SQLite format 3\x00'
SQLiteHeader == <<83, 81, 76, 105, 116, 101, 32, 102, 111, 114, 109, 97, 116,
                  32, 51, 0>>
HeaderLen == 16

\* f.read(16)
Header(content) == SubSeq(content, 1, Min(HeaderLen, Len(content)))

NoFile == [exists |-> FALSE, readable |-> FALSE, content |-> <<>>]
File(readable, content) ==
    [exists |-> TRUE, readable |-> readable, content |-> content]

\* is_bee_file(path), file being what is at the path; open() raises for a
\* file that cannot be read (IOError, OSError), which is passed over.
is_bee_file(path, file) ==
    IF path = <<>> THEN FALSE
    ELSE IF splitext_ext(path) # BeeExt THEN FALSE
    ELSE IF file.exists /\ file.readable
              /\ Header(file.content) # SQLiteHeader THEN FALSE
    ELSE TRUE

PathInputs ==
    {<<>>, <<"a">>, <<"a">> \o BeeExt, BeeExt, <<"a", ".", "p">>,
     <<"a">> \o BeeExt \o <<".", "p">>, <<"d">> \o BeeExt \o <<"/", "a">>,
     <<"d", "/">> \o BeeExt, <<"d", ".", "x", "/", "a">> \o BeeExt}

FileInputs ==
    {NoFile} \cup
    {File(r, c) : r \in BOOLEAN,
                  c \in {<<>>, SQLiteHeader, SQLiteHeader \o <<1, 2>>,
                         SubSeq(SQLiteHeader, 1, HeaderLen - 1),
                         [SQLiteHeader EXCEPT ![HeaderLen] = 1] \o <<0>>,
                         <<137, 80, 78, 71>>}}

\* ------------------------------- get_filename_for_export (items.py, gif_item.py)
DigitChars == <<"0", "1", "2", "3", "4", "5", "6", "7", "8", "9">>

\* str(n) of a natural number
RECURSIVE Decimal(_)
Decimal(n) ==
    IF n < 10 THEN <<DigitChars[n + 1]>>
    ELSE Decimal(n \div 10) \o <<DigitChars[(n % 10) + 1]>>

\* f'{n:04}'
PadWidth == 4
Format04(n) ==
    LET d == Decimal(n) IN [i \in 1..(PadWidth - Len(d)) |-> "0"] \o d

\* os.path.basename and os.path.splitext(...)[0]
basename(p) == SubSeq(p, RFind(p, "/") + 1, Len(p))
splitext_root(p) == SubSeq(p, 1, Len(p) - Len(splitext_ext(p)))

\* save_id_default=None
NoDefault == -1

Returned(name) == [raised |-> FALSE, name |-> name]
ValueError == [raised |-> TRUE, name |-> <<>>]

\* (variant that takes save_id_default before the item's save_id, for C25)
get_filename_for_export_DefaultFirst(item, imgformat, save_id_default) ==
    LET save_id == IF save_id_default \notin {NoDefault, 0}
                   THEN save_id_default
                   ELSE IF item.save_id # 0 THEN item.save_id ELSE NoDefault
    IN IF save_id = NoDefault THEN ValueError
       ELSE IF item.filename # <<>>
            THEN Returned(Format04(save_id) \o <<"-">>
                          \o splitext_root(basename(item.filename))
                          \o <<".">> \o imgformat)
            ELSE Returned(Format04(save_id) \o <<".">> \o imgformat)

\* get_filename_for_export(imgformat, save_id_default) of BeePixmapItem and
\* of BeeGifItem; item.save_id is 0 for None, item.filename <<>> for None.
get_filename_for_export(item, imgformat, save_id_default) ==
    LET save_id == IF item.save_id # 0 THEN item.save_id
                   ELSE save_id_default
    IN IF save_id = NoDefault THEN ValueError
       ELSE IF item.filename # <<>>
            THEN Returned(Format04(save_id) \o <<"-">>
                          \o splitext_root(basename(item.filename))
                          \o <<".">> \o imgformat)
            ELSE Returned(Format04(save_id) \o <<".">> \o imgformat)

ExportItems ==
    {[type |-> t, save_id |-> sid, filename |-> f] :
        t \in {"pixmap", "gif"}, sid \in {0, 7, 12345},
        f \in {<<>>, <<"a", ".", "p">>, <<"d", "/", "b", ".", "x", ".", "g">>,
               <<".", "h">>}}

ExportFormats == {<<"p", "n", "g">>, <<"g", "i", "f">>}

ExportDefaults == {NoDefault, 0, 3}

\* ----------------------------------------------------- BeeErrorItem (items.py)
\* BeeErrorItem.flip() and BeeErrorItem.do_flip()
BeeErrorItem_flip(it) == 1
BeeErrorItem_do_flip(it) == it

\* the data that read() hands on for a row it could not decode
ErrorData ==
    {[save_id |-> k, type |-> ErrorTYPE, x |-> g.x, flip |-> g.flip,
      text |-> "Image could not be loaded"] : k \in 1..MaxId, g \in Geos}

ErrorCalls == {"BeeErrorItem.update_from_data", "BeeErrorItem.do_flip"}

\* flip requests made to the Error item so far
Requests == IF call.fn \in ErrorCalls THEN call.requests ELSE 0

\* ------------------------------------------------- sort_by_filename (items.py)
\* the order of the characters, and the order of str
Alphabet == <<".", "/", "a", "b">>
Ord(ch) == CHOOSE i \in DOMAIN Alphabet : Alphabet[i] = ch

RECURSIVE StrLe(_, _)
StrLe(a, b) ==
    IF a = <<>> THEN TRUE
    ELSE IF b = <<>> THEN FALSE
    ELSE IF a[1] # b[1] THEN Ord(a[1]) < Ord(b[1])
    ELSE StrLe(Tail(a), Tail(b))

\* list.sort(key=...): stable; x goes behind the elements that are not
\* greater
\* the two sort keys
ByFilename == "filename"
BySaveId == "save_id"

KeyLe(key, a, b) ==
    IF key = ByFilename THEN StrLe(a.filename, b.filename)
    ELSE a.save_id <= b.save_id

InsertSorted(t, x, key) ==
    LET k == Cardinality({i \in DOMAIN t : KeyLe(key, t[i], x)})
    IN SubSeq(t, 1, k) \o <<x>> \o SubSeq(t, k + 1, Len(t))

ListSort(s, key) ==
    LET F[n \in 0..Len(s)] ==
          IF n = 0 THEN <<>> ELSE InsertSorted(F[n - 1], s[n], key)
    IN F[Len(s)]

\* (variant that sorts all items by save_id, for C27)
sort_by_filename_NoGroups(its) == ListSort(its, BySaveId)

\* sort_by_filename(items); filename <<>> is None or no such attribute,
\* save_id 0 is None.
sort_by_filename(its) ==
    LET items_by_filename == SelectSeq(its, LAMBDA it : it.filename # <<>>)
        items_by_save_id ==
            SelectSeq(its, LAMBDA it : it.filename = <<>> /\ it.save_id # 0)
        items_remaining ==
            SelectSeq(its, LAMBDA it : it.filename = <<>> /\ it.save_id = 0)
    IN ListSort(items_by_filename, ByFilename)
       \o ListSort(items_by_save_id, BySaveId)
       \o items_remaining

\* the lists given to sort_by_filename: item n of a list is named n
SortFilenames == {<<>>, <<"a">>, <<"b">>, <<"a", "b">>}
SortSaveIds == 0..2
SortLists ==
    UNION {[1..n -> SortFilenames \X SortSaveIds] : n \in 0..MaxLen}
SortItems(l) ==
    [n \in DOMAIN l |-> [name |-> n, filename |-> l[n][1],
                         save_id |-> l[n][2]]]

\* ------------------------------------------- calls of the functions above
\* Each action is one call; call keeps its arguments and what it returned.
\* The functions that keep nothing between two calls are called once.
Call_create_from_data ==
    /\ call = NoCall
    /\ \E it \in PayloadItems :
         LET data == get_extra_save_data(it) IN
         call' = [fn |-> "create_from_data", item |-> it, data |-> data,
                  out |-> create_from_data(it.type, data)]
    /\ UNCHANGED <<engineVars, view, workers, uiVars>>

Call_is_bee_file ==
    /\ call = NoCall
    /\ \E path \in PathInputs, file \in FileInputs :
         call' = [fn |-> "is_bee_file", path |-> path, file |-> file,
                  out |-> is_bee_file(path, file)]
    /\ UNCHANGED <<engineVars, view, workers, uiVars>>

Call_get_filename_for_export ==
    /\ call = NoCall
    /\ \E item \in ExportItems, imgformat \in ExportFormats,
          save_id_default \in ExportDefaults :
         call' = [fn |-> "get_filename_for_export", item |-> item,
                  imgformat |-> imgformat,
                  save_id_default |-> save_id_default,
                  out |-> get_filename_for_export(item, imgformat,
                                                  save_id_default)]
    /\ UNCHANGED <<engineVars, view, workers, uiVars>>

\* update_from_data(**data) on an Error item (a new one, or the one of the
\* last call)
Call_BeeErrorItem_update_from_data ==
    /\ Requests < MaxCalls
    /\ \E d \in ErrorData :
         call' = [fn |-> "BeeErrorItem.update_from_data",
                  data |-> d, out |-> update_from_data(d),
                  requests |-> Requests + (IF d.flip # 1 THEN 1 ELSE 0)]
    /\ UNCHANGED <<engineVars, view, workers, uiVars>>

\* do_flip() on the Error item of the last call
Call_BeeErrorItem_do_flip ==
    /\ call.fn \in ErrorCalls /\ Requests < MaxCalls
    /\ call' = [fn |-> "BeeErrorItem.do_flip",
                data |-> call.data, out |-> BeeErrorItem_do_flip(call.out),
                requests |-> Requests + 1]
    /\ UNCHANGED <<engineVars, view, workers, uiVars>>

Call_sort_by_filename ==
    /\ call = NoCall
    /\ \E l \in SortLists :
         call' = [fn |-> "sort_by_filename", items |-> SortItems(l),
                  out |-> sort_by_filename(SortItems(l))]
    /\ UNCHANGED <<engineVars, view, workers, uiVars>>

\* ------------------------------------- load_image (fileio/image.py 32-176)
\* A URL is what urlparse() makes of it: its scheme and its hostname ("":
\* none).  The names that DNS knows resolve to the first two numbers of an
\* address; <<>> is socket.gaierror.
ALLOWED_SCHEMES == {"http", "https"}

Schemes == {"http", "https", "ftp", ""}

Hostnames ==
    {"", "localhost", "127.0.0.1", "example.com", "intranet.example",
     "nas.example", "vpn.example", "edge.example", "gone.example",
     "www.pinterest.com"}

gaierror == <<>>

gethostbyname(hostname) ==
    CASE hostname = "localhost" -> <<127, 0>>
      [] hostname = "127.0.0.1" -> <<127, 0>>
      [] hostname = "example.com" -> <<93, 184>>
      [] hostname = "intranet.example" -> <<10, 0>>
      [] hostname = "nas.example" -> <<192, 168>>
      [] hostname = "vpn.example" -> <<172, 20>>
      [] hostname = "edge.example" -> <<172, 32>>
      [] hostname = "www.pinterest.com" -> <<151, 101>>
      [] OTHER -> gaierror

URLs == [scheme : Schemes, hostname : Hostnames]

\* root.xpath("//img")[0].get('src') of a page: a URL, None for an img
\* without src, IndexError for a page without img
NoSrc == [none |-> TRUE]
IndexError == [raised |-> "IndexError"]

\* (variant that checks the scheme alone, for C37)
validate_url_SchemeOnly(url_string) ==
    url_string # NoSrc /\ url_string.scheme \in ALLOWED_SCHEMES

\* validate_url(url_string), its first result; whatever is raised on the
\* way makes it False
validate_url(url_string) ==
    IF url_string = NoSrc THEN FALSE
    ELSE IF url_string.scheme \notin ALLOWED_SCHEMES THEN FALSE
    ELSE IF url_string.hostname # ""
         THEN IF url_string.hostname \in
                     {"localhost", "127.0.0.1", "::1", "0.0.0.0"}
              THEN FALSE
              ELSE LET addr == gethostbyname(url_string.hostname)
                   IN IF addr = gaierror THEN FALSE
                      ELSE IF addr[1] = 10 \/ (addr[1] = 192 /\ addr[2] = 168)
                           THEN FALSE
                      ELSE IF addr[1] = 172 /\ 16 <= addr[2] /\ addr[2] <= 31
                           THEN FALSE
                      ELSE TRUE
         ELSE TRUE

\* request.urlopen(url, timeout=DEFAULT_TIMEOUT).read(): URLError before
\* anything is sent for a URL without host, else the request goes out and
\* is answered (up) or ends in URLError or a timeout
urlopen(url, up) ==
    IF url.hostname = "" THEN [requested |-> FALSE, raised |-> TRUE]
    ELSE [requested |-> TRUE, raised |-> ~up]

\* '.'.join(parsed_url.netloc.split(".")[-2:]) == 'pinterest.com'
IsPinterest(url) == url.hostname \in {"pinterest.com", "www.pinterest.com"}

\* the download at the end of load_image, after the requests reqs
Download(url, env, reqs) ==
    LET r == urlopen(url, env.img_up)
    IN [img |-> IF r.raised THEN "null" ELSE env.data,
        url |-> url,
        requests |-> IF r.requested THEN Append(reqs, url) ELSE reqs]

\* load_image(path) in the environment env: the answer of the page and of
\* the image server, the first img of the page, what the image data decode
\* to.  The result has the image, the path or URL, and the requests made.
load_image(path, env) ==
    IF path.kind \in {"str", "QUrl.isLocalFile"}
    THEN [img |-> path.file, url |-> [normpath |-> path.kind],
          requests |-> <<>>]
    ELSE LET url == path.url
         IN IF ~validate_url(url)
            THEN [img |-> "null", url |-> url, requests |-> <<>>]
            ELSE IF IsPinterest(url)
                 THEN LET page == urlopen(url, env.page_up)
                          reqs == IF page.requested THEN <<url>> ELSE <<>>
                      IN IF page.raised \/ env.src = IndexError
                         THEN [img |-> "null", url |-> url, requests |-> reqs]
                         ELSE IF ~validate_url(env.src)
                              THEN [img |-> "null", url |-> env.src,
                                    requests |-> reqs]
                              ELSE Download(env.src, env, reqs)
                 ELSE Download(url, env, <<>>)

ImagePaths ==
    [kind : {"str", "QUrl.isLocalFile"}, file : {"image", "null"}]
    \cup [kind : {"QUrl"}, url : URLs]

NetEnvs ==
    [page_up : BOOLEAN, src : URLs \cup {NoSrc, IndexError},
     img_up : BOOLEAN, data : {"image", "null"}]

Call_load_image ==
    /\ call = NoCall
    /\ \E path \in ImagePaths, env \in NetEnvs :
         call' = [fn |-> "load_image", path |-> path, env |-> env,
                  out |-> load_image(path, env)]
    /\ UNCHANGED <<engineVars, view, workers, uiVars>>

PureNext ==
    \/ Call_create_from_data
    \/ Call_is_bee_file
    \/ Call_get_filename_for_export
    \/ Call_BeeErrorItem_update_from_data
    \/ Call_BeeErrorItem_do_flip
    \/ Call_sort_by_filename
    \/ Call_load_image

PureSpec == Init /\ [][PureNext]_vars

\* ------------------------------------------------- saves of the view (view.py)
\* The view with the write workers it starts.  A worker is the ThreadedIO of
\* one do_save() call with its progress dialog; it runs until write() emits
\* finished, its last statement.  The names the view works with, and their
\* characters:
SaveNames == {"a", "a.bee", "b.bee"}

PathChars(name) ==
    CASE name = "a" -> <<"a">>
      [] name = "a.bee" -> <<"a">> \o BeeExt
      [] name = "b.bee" -> <<"b">> \o BeeExt

PathStr(chars) == CHOOSE name \in SaveNames : PathChars(name) = chars

\* what is at the path that is saved to: nothing, or an archive
SavedOver == {NoFile, File(TRUE, SQLiteHeader)}

Worker(id, filename, cn) ==
    [id |-> id, filename |-> filename, create_new |-> cn,
     progress |-> TRUE, canceled |-> FALSE]

\* The progress dialog of a worker is window-modal while it is shown.
Modal == \E w \in workers : w.progress

\* do_save(filename, create_new)
do_save(filename, cn) ==
    /\ Cardinality(workers) < MaxWorkers
    /\ \E file \in SavedOver :
         LET name == IF ~is_bee_file(PathChars(filename), file)
                     THEN PathStr(PathChars(filename) \o BeeExt)
                     ELSE filename
             id == CHOOSE n \in 1..MaxWorkers :
                       \A w \in workers : w.id # n
         IN workers' = workers \cup {Worker(id, name, cn)}
    /\ UNCHANGED <<engineVars, view, call, uiVars>>

\* on_action_save_as(): the file dialog gives a name (none: no save)
on_action_save_as ==
    /\ ~Modal
    /\ \E filename \in SaveNames : do_save(filename, TRUE)

\* on_action_save()
on_action_save ==
    /\ ~Modal
    /\ IF view.filename = ""
       THEN \E filename \in SaveNames : do_save(filename, TRUE)
       ELSE do_save(view.filename, FALSE)

\* Cancel in the progress dialog: canceled reaches worker.on_canceled, and
\* the dialog, a QProgressDialog, hides on its own cancel().
on_canceled(w) ==
    /\ w \in workers /\ w.progress
    /\ workers' = (workers \ {w})
                  \cup {[w EXCEPT !.progress = FALSE, !.canceled = TRUE]}
    /\ UNCHANGED <<engineVars, view, call, uiVars>>

\* write() of the worker ends: finished goes to on_saving_finished and to
\* the dialog's on_finished.  A cancelled write() reports no error.
worker_finished(w, errors) ==
    /\ w \in workers
    /\ w.canceled => errors = <<>>
    /\ workers' = workers \ {w}
    /\ view' = on_saving_finished(view, w.filename, errors)
    /\ UNCHANGED <<engineVars, call, uiVars>>

\* a change of the scene through the window
view_edit ==
    /\ ~Modal
    /\ view' = undo_stack_push(view)
    /\ UNCHANGED <<engineVars, workers, call, uiVars>>

ViewNext ==
    \/ on_action_save_as
    \/ on_action_save
    \/ \E w \in workers : on_canceled(w)
    \/ \E w \in workers, errors \in {<<>>, <<"sqlite3.Error">>} :
          worker_finished(w, errors)
    \/ view_edit

ViewSpec == Init /\ [][ViewNext]_vars

\* ------------------------------------------ GIF animation (gif_item.py)
\* QTimer.singleShot() queues a call that cannot be taken back: a pending
\* timer fires whatever the item did in between.
RECURSIVE SumTo(_, _)
SumTo(f, n) == IF n < 0 THEN 0 ELSE f[n] + SumTo(f, n - 1)

Timers(g) == g.ticks + SumTo(g.shows, MaxFrames - 1)

Speeds == {1, 2}

\* _show_frame(frame_num): only a cached frame is shown; _cache_all_frames
\* caches every frame of the movie
_show_frame(g, frame_num) ==
    IF frame_num \in 0..(g.frame_count - 1)
    THEN [g EXCEPT !.current_frame = frame_num]
    ELSE g

\* play_animation(): from paused, is_playing is set and one tick is scheduled
play_animation(g) ==
    IF ~g.movie \/ g.frame_count <= 1 THEN g
    ELSE IF ~g.is_playing
         THEN [g EXCEPT !.is_playing = TRUE, !.ticks = @ + 1]
         ELSE g

\* pause_animation(): the flag alone; the scheduled tick stays pending
pause_animation(g) ==
    IF g.is_playing THEN [g EXCEPT !.is_playing = FALSE] ELSE g

toggle_animation(g) ==
    IF g.is_playing THEN pause_animation(g) ELSE play_animation(g)

\* set_speed(speed): a playing item is paused and played again
set_speed(g, speed) ==
    LET h == [g EXCEPT !.speed = speed]
    IN IF h.is_playing THEN play_animation(pause_animation(h)) ELSE h

previous_frame(g) ==
    IF g.frame_count = 0 THEN g
    ELSE LET h == pause_animation(g)
         IN _show_frame(h, (h.current_frame - 1) % h.frame_count)

next_frame(g) ==
    IF g.frame_count = 0 THEN g
    ELSE LET h == pause_animation(g)
         IN _show_frame(h, (h.current_frame + 1) % h.frame_count)

\* load_gif(filename) for a file with frame_count frames (0: not found or
\* not a movie): frame 0 is shown and a movie of several frames plays
load_gif(g, frame_count) ==
    IF frame_count = 0 THEN g
    ELSE play_animation(_show_frame(
             [g EXCEPT !.movie = TRUE, !.frame_count = frame_count], 0))

\* GifFramesMenu.select_frame(frame_number) on the item, frame numbers
\* starting from 1: jumpToFrame() succeeds for a frame of the movie
select_frame(g, frame_number) ==
    IF ~g.movie THEN g
    ELSE LET frame_index == frame_number - 1
             h == pause_animation(g)
             j == IF frame_index \in 0..(h.frame_count - 1)
                  THEN [h EXCEPT !.current_frame = frame_index]
                  ELSE h
         IN IF g.is_playing THEN play_animation(j) ELSE j

\* (variant that does not look at is_playing, for C33)
_on_animation_tick_NoCheck(g) ==
    IF g.frame_count <= 1 THEN g
    ELSE [g EXCEPT !.shows[(g.current_frame + 1) % g.frame_count] = @ + 1]

\* _on_animation_tick(): nothing when paused, else show_next is scheduled
\* with the frame after the current one
_on_animation_tick(g) ==
    IF ~g.is_playing \/ g.frame_count <= 1 THEN g
    ELSE [g EXCEPT !.shows[(g.current_frame + 1) % g.frame_count] = @ + 1]

\* the closure show_next of _on_animation_tick: nothing when paused, else
\* the frame is shown and the next tick is scheduled
show_next(g, next_frame_) ==
    IF g.is_playing
    THEN [_show_frame(g, next_frame_) EXCEPT !.ticks = @ + 1]
    ELSE g

\* A call on the item from the menus or the event loop ends in state h.
GifStep(h, name) ==
    /\ Timers(h) <= MaxTimers
    /\ gif' = [h EXCEPT !.last = name]
    /\ UNCHANGED <<engineVars, view, workers, call, crop, draw>>

Gif_load_gif(frame_count) ==
    /\ ~gif.movie
    /\ GifStep(load_gif(gif, frame_count), "load_gif")

Gif_play_animation == gif.movie /\ GifStep(play_animation(gif), "play")

Gif_pause_animation == gif.movie /\ GifStep(pause_animation(gif), "pause")

Gif_toggle_animation == gif.movie /\ GifStep(toggle_animation(gif), "toggle")

Gif_set_speed(speed) == gif.movie /\ GifStep(set_speed(gif, speed), "speed")

Gif_previous_frame == gif.movie /\ GifStep(previous_frame(gif), "previous")

Gif_next_frame == gif.movie /\ GifStep(next_frame(gif), "next")

Gif_select_frame(frame_number) ==
    /\ gif.movie /\ frame_number <= gif.frame_count
    /\ GifStep(select_frame(gif, frame_number), "select")

\* a pending single shot of _on_animation_tick fires
tick_fires ==
    /\ gif.ticks > 0
    /\ GifStep(_on_animation_tick([gif EXCEPT !.ticks = @ - 1]), "tick")

\* a pending single shot of show_next fires
show_next_fires(n) ==
    /\ gif.shows[n] > 0
    /\ GifStep(show_next([gif EXCEPT !.shows[n] = @ - 1], n), "show_next")

GifNext ==
    \/ \E n \in 0..MaxFrames : Gif_load_gif(n)
    \/ Gif_play_animation
    \/ Gif_pause_animation
    \/ Gif_toggle_animation
    \/ \E s \in Speeds : Gif_set_speed(s)
    \/ Gif_previous_frame
    \/ Gif_next_frame
    \/ \E k \in 1..MaxFrames : Gif_select_frame(k)
    \/ tick_fires
    \/ \E n \in Frames : show_next_fires(n)

GifSpec == UiInit /\ [][GifNext]_vars

\* --------------------------------------------- crop mode (items.py 339-634)
\* Coordinates are whole pixels of the item.  A QRectF is its four edges:
\* setLeft, setTop, setRight, setBottom and the corner setters move the
\* edges they name and leave the opposite ones where they are.
Handles ==
    {"crop_handle_topleft", "crop_handle_bottomleft",
     "crop_handle_bottomright", "crop_handle_topright",
     "crop_edge_top", "crop_edge_left", "crop_edge_bottom", "crop_edge_right"}

Keys == {"Key_Return", "Key_Enter", "Key_Escape", "Key_A"}

Sides == 1..MaxSide

\* positions of the mouse, in item coordinates: on the pixmap and beside it
Coords == 0..(MaxSide + 1)
Positions == [x : Coords, y : Coords]

QPointF(x, y) == [x |-> x, y |-> y]

\* QRectF.contains(point): the edges count, a rectangle without area holds
\* no point
contains(rect, p) ==
    /\ rect.l < rect.r /\ rect.t < rect.b
    /\ rect.l <= p.x /\ p.x <= rect.r
    /\ rect.t <= p.y /\ p.y <= rect.b

\* BeePixmapItem.setPixmap(pixmap): the crop is reset to the whole pixmap
setPixmap(c, w, h) ==
    [c EXCEPT !.width = w, !.height = h, !.crop = QRectF(0, 0, w, h)]

\* commands.CropItem(item, crop) pushed on the undo stack: the command is
\* kept with the crop it replaces, and its redo() sets the item's crop
push_CropItem(c, rect) ==
    [c EXCEPT !.undo_stack = Append(@, [crop |-> rect, old_crop |-> c.crop]),
              !.crop = rect]

enter_crop_mode(c) ==
    [c EXCEPT !.crop_mode = TRUE, !.crop_temp = c.crop,
              !.crop_mode_move = "None", !.crop_mode_event_start = NoPoint,
              !.scene_crop_item = TRUE]

\* (variant that takes every exit for a confirmation, for C35)
exit_crop_mode_Always(c, confirm) ==
    LET d == IF c.crop # c.crop_temp THEN push_CropItem(c, c.crop_temp) ELSE c
    IN [d EXCEPT !.crop_mode = FALSE, !.crop_temp = NoRect,
                 !.crop_mode_move = "None", !.crop_mode_event_start = NoPoint,
                 !.scene_crop_item = FALSE]

exit_crop_mode(c, confirm) ==
    LET d == IF confirm /\ c.crop # c.crop_temp
             THEN push_CropItem(c, c.crop_temp)
             ELSE c
    IN [d EXCEPT !.crop_mode = FALSE, !.crop_temp = NoRect,
                 !.crop_mode_move = "None", !.crop_mode_event_start = NoPoint,
                 !.scene_crop_item = FALSE]

\* keyPressEvent(event); the item has the keyboard while it is in crop mode
keyPressEvent(c, key) ==
    IF key \in {"Key_Return", "Key_Enter"} THEN exit_crop_mode(c, TRUE)
    ELSE IF key = "Key_Escape" THEN exit_crop_mode(c, FALSE)
    ELSE c

\* mousePressEvent(event), hit being the handle or edge that contains
\* event.pos() ("None": neither)
mousePressEvent(c, pos, hit) ==
    IF ~c.crop_mode THEN c
    ELSE IF hit \in Handles
         THEN [c EXCEPT !.crop_mode_event_start = pos, !.crop_mode_move = hit]
         ELSE exit_crop_mode(c, contains(c.crop_temp, pos))

\* (variant that returns the point as it is, for C34)
ensure_point_within_crop_bounds_NoClamp(c, point, handle) == point

\* ensure_point_within_crop_bounds(point, handle): the point, or the nearest
\* one in the area that the handle may move in
ensure_point_within_crop_bounds(c, point, handle) ==
    LET t == c.crop_temp
        topleft ==
            CASE handle = "crop_handle_topleft" -> QPointF(0, 0)
              [] handle = "crop_handle_bottomleft" -> QPointF(0, t.t)
              [] handle = "crop_handle_bottomright" -> QPointF(t.l, t.t)
              [] handle = "crop_handle_topright" -> QPointF(t.l, 0)
              [] handle = "crop_edge_top" -> QPointF(0, 0)
              [] handle = "crop_edge_bottom" -> QPointF(0, t.t)
              [] handle = "crop_edge_left" -> QPointF(0, 0)
              [] handle = "crop_edge_right" -> QPointF(t.l, 0)
        bottomright ==
            CASE handle = "crop_handle_topleft" -> QPointF(t.r, t.b)
              [] handle = "crop_handle_bottomleft" -> QPointF(t.r, c.height)
              [] handle = "crop_handle_bottomright" ->
                     QPointF(c.width, c.height)
              [] handle = "crop_handle_topright" -> QPointF(c.width, t.b)
              [] handle = "crop_edge_top" -> QPointF(c.width, t.b)
              [] handle = "crop_edge_bottom" -> QPointF(c.width, c.height)
              [] handle = "crop_edge_left" -> QPointF(t.r, c.height)
              [] handle = "crop_edge_right" -> QPointF(c.width, c.height)
    IN QPointF(Min(bottomright.x, Max({topleft.x, point.x})),
               Min(bottomright.y, Max({topleft.y, point.y})))

\* the corner or edge of crop_temp that a handle moves
HandlePoint(t, handle) ==
    CASE handle \in {"crop_handle_topleft", "crop_edge_top", "crop_edge_left"}
             -> QPointF(t.l, t.t)
      [] handle \in {"crop_handle_bottomleft", "crop_edge_bottom"}
             -> QPointF(t.l, t.b)
      [] handle = "crop_handle_bottomright" -> QPointF(t.r, t.b)
      [] handle \in {"crop_handle_topright", "crop_edge_right"}
             -> QPointF(t.r, t.t)

\* crop_temp.setTopLeft(new), setBottomLeft(new), ..., setRight(new.x())
SetHandle(t, handle, new) ==
    CASE handle = "crop_handle_topleft" -> [t EXCEPT !.l = new.x, !.t = new.y]
      [] handle = "crop_handle_bottomleft" ->
             [t EXCEPT !.l = new.x, !.b = new.y]
      [] handle = "crop_handle_bottomright" ->
             [t EXCEPT !.r = new.x, !.b = new.y]
      [] handle = "crop_handle_topright" -> [t EXCEPT !.r = new.x, !.t = new.y]
      [] handle = "crop_edge_top" -> [t EXCEPT !.t = new.y]
      [] handle = "crop_edge_left" -> [t EXCEPT !.l = new.x]
      [] handle = "crop_edge_bottom" -> [t EXCEPT !.b = new.y]
      [] handle = "crop_edge_right" -> [t EXCEPT !.r = new.x]

\* the point that mouseMoveEvent hands to ensure_point_within_crop_bounds
Dragged(c, pos) ==
    LET p == HandlePoint(c.crop_temp, c.crop_mode_move)
    IN QPointF(p.x + pos.x - c.crop_mode_event_start.x,
               p.y + pos.y - c.crop_mode_event_start.y)

\* the point lies on the pixmap
PointInPixmap(c, p) ==
    /\ 0 <= p.x /\ p.x <= c.width
    /\ 0 <= p.y /\ p.y <= c.height

\* mouseMoveEvent(event).  A QPointF is false when it is (0, 0): a drag that
\* started there goes to QGraphicsPixmapItem.mouseMoveEvent.
mouseMoveEvent(c, pos) ==
    IF c.crop_mode /\ c.crop_mode_event_start \notin {NoPoint, QPointF(0, 0)}
    THEN IF c.crop_mode_move \in Handles
         THEN LET new == ensure_point_within_crop_bounds(
                             c, Dragged(c, pos), c.crop_mode_move)
              IN [c EXCEPT !.crop_temp = SetHandle(@, c.crop_mode_move, new),
                           !.crop_mode_event_start = pos]
         ELSE [c EXCEPT !.crop_mode_event_start = pos]
    ELSE c

mouseReleaseEvent(c) ==
    IF c.crop_mode
    THEN [c EXCEPT !.crop_mode_move = "None",
                   !.crop_mode_event_start = NoPoint]
    ELSE c

\* An event or call on the item ends in state d; last keeps what it was.
CropStep(d, what) ==
    /\ crop' = [d EXCEPT !.last = what]
    /\ UNCHANGED <<engineVars, view, workers, call, gif, draw>>

Crop_setPixmap(w, h) ==
    /\ crop.width = 0 /\ ~crop.crop_mode
    /\ CropStep(setPixmap(crop, w, h), [op |-> "setPixmap"])

Crop_enter_crop_mode ==
    /\ crop.width > 0 /\ ~crop.crop_mode
    /\ Len(crop.undo_stack) < MaxUndo
    /\ CropStep(enter_crop_mode(crop), [op |-> "enter_crop_mode"])

Crop_keyPressEvent(key) ==
    /\ crop.crop_mode
    /\ CropStep(keyPressEvent(crop, key),
                [op |-> "keyPressEvent", key |-> key])

Crop_mousePressEvent(pos, hit) ==
    /\ crop.crop_mode
    /\ CropStep(mousePressEvent(crop, pos, hit),
                [op |-> "mousePressEvent", hit |-> hit,
                 inside |-> contains(crop.crop_temp, pos)])

Crop_mouseMoveEvent(pos) ==
    /\ crop.crop_mode /\ crop.crop_mode_move \in Handles
    /\ CropStep(mouseMoveEvent(crop, pos),
                [op |-> "mouseMoveEvent",
                 outside |-> ~PointInPixmap(crop, Dragged(crop, pos))])

Crop_mouseReleaseEvent ==
    /\ crop.crop_mode
    /\ CropStep(mouseReleaseEvent(crop), [op |-> "mouseReleaseEvent"])

CropNext ==
    \/ \E w \in Sides, h \in Sides : Crop_setPixmap(w, h)
    \/ Crop_enter_crop_mode
    \/ \E key \in Keys : Crop_keyPressEvent(key)
    \/ \E pos \in Positions, hit \in Handles \cup {"None"} :
         Crop_mousePressEvent(pos, hit)
    \/ \E pos \in Positions : Crop_mouseMoveEvent(pos)
    \/ Crop_mouseReleaseEvent

CropSpec == UiInit /\ [][CropNext]_vars

\* ------------------------------------------ drawing mode (view.py 541-702)
\* Positions are points of the scene on one line.  A QPainterPath is its
\* elementCount() and the point of its last element; coordinates of a path
\* are kept in quarters, so that the control points of the curves are whole
\* numbers.
DrawPositions == 0..MaxPos

\* QPainterPath() followed by moveTo(p)
moveTo(p) == [elementCount |-> 1, last |-> 4 * p]

\* QPainterPath.lineTo(p): no element for the point the path is at
lineTo(path, p) ==
    IF path.last = 4 * p THEN path
    ELSE [elementCount |-> path.elementCount + 1, last |-> 4 * p]

\* QPainterPath.cubicTo(c1, c2, e), with c1, c2, e in quarters: three
\* elements, none for a curve that stays at the point the path is at
cubicTo(path, c1, c2, e) ==
    IF path.last = c1 /\ c1 = c2 /\ c2 = e THEN path
    ELSE [elementCount |-> path.elementCount + 3, last |-> e]

\* QPainterPath.quadTo(c, e): the same for a quadratic curve
quadTo(path, c, e) ==
    IF path.last = c /\ c = e THEN path
    ELSE [elementCount |-> path.elementCount + 3, last |-> e]

\* commands.InsertItems(scene, [item], pos) pushed on the undo stack: the
\* command is kept and its redo() adds the item to the scene at pos
push_InsertItems(d, item, pos) ==
    [d EXCEPT !.undo_stack = Append(@, [cmd |-> "InsertItems", item |-> item]),
              !.scene = @ \cup {item},
              !.item_pos = pos]

\* scene.removeItem(item)
removeItem(d, item) ==
    [d EXCEPT !.scene = @ \ {item}, !.removed = @ \cup {item}]

\* cancel_drawing_mode(), the definition that the class ends up with (the
\* second one)
cancel_drawing_mode(d) ==
    IF d.drawing_mode
    THEN LET e == IF /\ d.current_draw_item # 0 /\ d.drawing_path # NoPath
                     /\ d.drawing_path.elementCount <= 1
                  THEN removeItem(d, d.current_draw_item)
                  ELSE d
         IN [e EXCEPT !.drawing_mode = FALSE, !.current_draw_item = 0,
                      !.drawing_path = NoPath, !.drawing_points = <<>>]
    ELSE d

\* enter_drawing_mode(): cancel_active_modes() first
enter_drawing_mode(d) ==
    [cancel_drawing_mode(d) EXCEPT
        !.drawing_mode = TRUE, !.current_draw_item = 0,
        !.drawing_path = NoPath, !.drawing_points = <<>>]

\* _start_drawing(pos): a new BeeDrawItem goes to the scene when no stroke
\* is open, then the path starts at pos in the item's coordinates
_start_drawing(d, pos) ==
    IF ~d.drawing_mode THEN d
    ELSE LET e == IF d.current_draw_item = 0
                  THEN push_InsertItems(
                           [d EXCEPT !.current_draw_item = d.created + 1,
                                     !.created = @ + 1],
                           d.created + 1, pos)
                  ELSE d
             local_pos == pos - e.item_pos
         IN [e EXCEPT !.drawing_path = moveTo(local_pos),
                      !.drawing_points = <<local_pos>>]

\* _continue_drawing(pos): a line to the second point, a quadratic curve to
\* the third, cubic curves from the fourth on
_continue_drawing(d, pos) ==
    IF ~d.drawing_mode \/ d.current_draw_item = 0 \/ d.drawing_path = NoPath
    THEN d
    ELSE LET local_pos == pos - d.item_pos
             pts == Append(d.drawing_points, local_pos)
             n == Len(pts)
             p2 == pts[n]
             p1 == pts[Max({n - 1, 1})]
             p0 == pts[Max({n - 2, 1})]
             p_prev == IF n >= 5 THEN pts[n - 3] ELSE p0
             path ==
                 IF n < 2 THEN d.drawing_path
                 ELSE IF n = 2 THEN lineTo(d.drawing_path, local_pos)
                 ELSE IF n = 3
                      THEN quadTo(d.drawing_path, 2 * (p1 + p2), 4 * p2)
                      ELSE cubicTo(d.drawing_path,
                                   4 * p1 - (p1 - p_prev),
                                   4 * p1 + (p2 - p0),
                                   4 * p2)
         IN [d EXCEPT !.drawing_points = pts, !.drawing_path = path]

\* _finish_drawing(pos): the stroke ends at pos; an item whose path has one
\* element is removed; the mode stays for the next stroke
_finish_drawing(d, pos) ==
    IF ~d.drawing_mode \/ d.current_draw_item = 0 \/ d.drawing_path = NoPath
    THEN d
    ELSE LET e == _continue_drawing(d, pos)
             f == IF e.drawing_path.elementCount <= 1
                  THEN removeItem(e, e.current_draw_item)
                  ELSE e
         IN [f EXCEPT !.current_draw_item = 0, !.drawing_path = NoPath,
                      !.drawing_points = <<>>]

\* An event of the view ends in state d.
DrawStep(d) ==
    /\ draw' = d
    /\ UNCHANGED <<engineVars, view, workers, call, gif, crop>>

\* on_action_insert_draw()
Draw_enter_drawing_mode ==
    /\ draw.created <= MaxStrokes
    /\ DrawStep(enter_drawing_mode(draw))

\* keyPressEvent with Key_Escape
Draw_cancel_drawing_mode ==
    /\ draw.drawing_mode
    /\ DrawStep(cancel_drawing_mode(draw))

\* mousePressEvent with the left button
Draw_mousePressEvent(pos) ==
    /\ ~draw.pressed /\ draw.drawing_mode
    /\ draw.created < MaxStrokes
    /\ DrawStep(_start_drawing([draw EXCEPT !.pressed = TRUE], pos))

\* mouseMoveEvent with the left button held
Draw_mouseMoveEvent(pos) ==
    /\ draw.pressed /\ draw.drawing_mode /\ draw.current_draw_item # 0
    /\ Len(draw.drawing_points) < MaxPoints - 1
    /\ DrawStep(_continue_drawing(draw, pos))

\* mouseReleaseEvent of the left button
Draw_mouseReleaseEvent(pos) ==
    /\ draw.pressed
    /\ DrawStep(IF draw.drawing_mode
                THEN _finish_drawing([draw EXCEPT !.pressed = FALSE], pos)
                ELSE [draw EXCEPT !.pressed = FALSE])

DrawNext ==
    \/ Draw_enter_drawing_mode
    \/ Draw_cancel_drawing_mode
    \/ \E pos \in DrawPositions : Draw_mousePressEvent(pos)
    \/ \E pos \in DrawPositions : Draw_mouseMoveEvent(pos)
    \/ \E pos \in DrawPositions : Draw_mouseReleaseEvent(pos)

DrawSpec == UiInit /\ [][DrawNext]_vars

\* ==================================================================== claims
\* save_ids of the items that items_for_save() returns
SavedIds == {items[i].save_id : i \in Range(items_for_save)}

\* positions of the finished signals among the emitted ones
Finished == {n \in DOMAIN events : events[n].sig = "finished"}

\* the run ended without an exception and without a cancel
EndedWell(o) == op = o /\ pc = "done" /\ exc = "none" /\ ~canceled

\* the stored image bytes of row k cannot be decoded
Undecodable(k) ==
    /\ k \in DOMAIN items_tbl /\ items_tbl[k].type = "pixmap"
    /\ k \in DOMAIN sqlar_tbl /\ sqlar_tbl[k] # "ok"

\* C1: in every run of write() on a writable store, cancelled runs included,
\* the rows that delete_items removes are exactly the archive ids that are
\* neither the save_id of an item of items_for_save() nor the
\* original_save_id of an Error item; no row of a live item is deleted.
C1_DeletedExactly ==
    (op = "write" /\ pc = "w_vacuum") =>
        /\ deleted = fetched \ (SavedIds \cup Keep)
        /\ deleted \cap SavedIds = {}

\* C2: while an Error item loaded from the present archive is in the scene,
\* the row it stands for stays in the archive and write() neither deletes
\* nor updates it: items row and sqlar blob are as they were when the run
\* began; no Error item is ever written.
C2_ErrorRowsUntouched ==
    /\ \A k \in DOMAIN items_tbl : items_tbl[k].type # ErrorTYPE
    /\ \A n \in DOMAIN to_save : items[to_save[n]].type # ErrorTYPE
    /\ \A k \in protected :
          /\ k \in Keep
          /\ k \in DOMAIN items_tbl /\ k \in DOMAIN sqlar_tbl
          /\ op = "write" =>
                /\ k \notin to_delete /\ k \notin deleted
                /\ k \in DOMAIN file0.items /\ items_tbl[k] = file0.items[k]
                /\ k \in DOMAIN file0.sqlar /\ sqlar_tbl[k] = file0.sqlar[k]

\* a write() that changed the archive has ended well with an Error item of
\* this archive in the scene
C2_Witness ==
    /\ EndedWell("write") /\ protected # {}
    /\ items_tbl # file0.items

\* C3: when a read() has ended well, every row of the archive whose bytes
\* are intact was enqueued exactly once, and the item built from the
\* enqueued data has the row's type, id, position and flip.
C3_RoundTrip ==
    EndedWell("read") =>
        \A k \in DOMAIN items_tbl :
            ~Undecodable(k) =>
                /\ Cardinality({n \in DOMAIN enq : enq[n].save_id = k}) = 1
                /\ \A n \in DOMAIN enq :
                      enq[n].save_id = k =>
                          LET it == update_from_data(enq[n]) IN
                          /\ it.type = items_tbl[k].type
                          /\ it.save_id = k
                          /\ it.geo = [x |-> items_tbl[k].x,
                                       flip |-> items_tbl[k].flip]

\* C4: when the migration of an existing archive has failed in a run, then
\* at the end of that run the file is at the path with the contents it had
\* when the run began.
C4_OriginalKept ==
    (pc = "done" /\ migFailed /\ file0.exists) => FileState = file0

\* C5: a write() that ended well leaves every persisted item with a positive
\* save_id that is the id of a row; the read() of the archive hands back
\* exactly the archive's row ids; a write() of a scene that carries exactly
\* the archive's ids inserts and deletes nothing.
C5_StableIdentity ==
    /\ EndedWell("write") =>
          \A i \in Range(items_for_save) :
              items[i].save_id > 0 /\ items[i].save_id \in DOMAIN items_tbl
    /\ EndedWell("read") =>
          {enq[n].save_id : n \in DOMAIN enq} = DOMAIN items_tbl
    /\ (EndedWell("write") /\ ~create_new /\ fetched = SavedIds \cup Keep) =>
          DOMAIN items_tbl = fetched

\* C6: when a read() of an archive with an undecodable pixmap row has ended
\* well, that row was enqueued as type 'error' with its id and a message,
\* every other row was enqueued with its own type, and finished carries an
\* empty error list.
C6_PartialFailure ==
    (EndedWell("read") /\ \E k \in DOMAIN items_tbl : Undecodable(k)) =>
        /\ \A k \in DOMAIN items_tbl :
              \E n \in DOMAIN enq :
                  /\ enq[n].save_id = k
                  /\ IF Undecodable(k)
                     THEN /\ enq[n].type = ErrorTYPE /\ enq[n].text # ""
                          /\ update_from_data(enq[n]).original_save_id = k
                     ELSE enq[n].type = items_tbl[k].type
        /\ worker => events[Len(events)] = FinishedEv(FILENAME, <<>>)

\* C7: under a worker a run emits finished at most once, not before it has
\* ended, and exactly once when it has ended; the error list is non-empty
\* exactly when the run failed with an exception.
C7_FinishedOnce ==
    worker =>
        /\ Cardinality(Finished) <= 1
        /\ pc \notin {"done", "idle"} => Finished = {}
        /\ pc = "done" =>
              /\ Finished = {Len(events)}
              /\ (events[Len(events)].errors # <<>>) <=> (exc # "none")

\* a write() under a worker has succeeded on its retry and signalled once
C7_Witness ==
    /\ worker /\ op = "write" /\ pc = "done"
    /\ attempts = 1 /\ tries = 2 /\ exc = "none"
    /\ Cardinality(Finished) = 1

\* C8: under a worker the signals of a run come as one
\* begin_processing(total), total being the number of rows or items to
\* process, then progress indices that start at 0 and strictly increase,
\* then finished as the last one; also when write() retries.
C8_EventOrder ==
    worker =>
        \A n \in DOMAIN events :
            /\ events[n].sig = "begin_processing" =>
                  /\ n = 1
                  /\ events[n].arg = IF op = "write" THEN Len(to_save)
                                     ELSE Len(rows)
            /\ events[n].sig = "progress" =>
                  /\ events[1].sig = "begin_processing"
                  /\ events[n].arg >= 0
                  /\ events[n].arg < events[1].arg
                  /\ \A m \in 1..(n - 1) :
                        events[m].sig = "progress"
                            => events[m].arg < events[n].arg
            /\ events[n].sig = "finished" => n = Len(events)

\* C9: the write sequence is entered at most twice in a write(): the first
\* error closes the connection, the sequence is entered again only on a
\* re-established connection, and the second error goes to the caller.
C9_RetryBound ==
    op = "write" =>
        /\ tries <= 2 /\ attempts <= 2
        /\ pc \in {"w_schema", "w_data", "w_loop", "w_delete", "w_vacuum"} =>
              conn /\ tries = attempts + 1
        /\ pc = "w_reconn" => ~conn /\ attempts = 1 /\ tries = 1
        /\ attempts = 2 =>
              /\ pc \in {"handler", "done"} /\ exc # "none"
              /\ pc = "done" =>
                    IF worker
                    THEN events[Len(events)] = FinishedEv(FILENAME, <<exc>>)
                    ELSE raised

\* the second pass of the write sequence has raised and the error is on its
\* way to the caller
C9_Witness ==
    op = "write" /\ tries = 2 /\ attempts = 2 /\ pc = "handler"

\* C10: write() on a readonly engine goes straight to the failure: no
\* connection, no pass of the write sequence, the archive as it was, and the
\* failure raised or signalled with a non-empty error list.
C10_ReadonlyWrite ==
    (op = "write" /\ readonly) =>
        /\ pc \in {"w_begin", "handler", "done"}
        /\ ~conn /\ tries = 0 /\ attempts = 0
        /\ FileState = file0
        /\ pc = "done" =>
              /\ exc = "sqlite3.OperationalError"
              /\ IF worker
                 THEN events = <<FinishedEv(FILENAME, <<exc>>)>>
                 ELSE raised /\ events = <<>>

\* a readonly write() of a scene with an unsaved item on an existing archive
\* has ended
C10_Witness ==
    /\ op = "write" /\ readonly /\ pc = "done"
    /\ file0.exists /\ \E i \in DOMAIN items : items[i].save_id = 0

\* C11: when a read() under a worker has observed the cancel flag at the
\* check after row idx, exactly the first idx rows were enqueued and are all
\* that the scene and its queue hold, and the last signals are
\* progress(idx - 1) and finished('', []).
C11_ReadCancel ==
    (op = "read" /\ worker /\ canceled) =>
        /\ pc = "r_loop" => Len(enq) = idx - 1
        /\ pc = "done" =>
              /\ Len(enq) = idx /\ idx <= Len(rows)
              /\ \A n \in 1..idx : enq[n] = DecodeRow(rows[n])
              /\ Len(items) + Len(queue) = idx
              /\ Finished = {Len(events)}
              /\ events[Len(events)] = FinishedEv("", <<>>)
              /\ events[Len(events) - 1] = ProgressEv(idx - 1)

\* a load was cancelled before its last row
C11_Witness ==
    /\ op = "read" /\ worker /\ canceled /\ pc = "done"
    /\ Len(enq) < Len(rows)

\* C12: once a write() under a worker has left its item loop with the cancel
\* flag set, the rows of the idx processed items are in the store as
\* written, no step inserts or updates a row or moves on to another item,
\* the delete step has removed every id left in to_delete, and the run ends
\* with finished(filename, []).
C12_WriteCancel ==
    /\ [](  (op = "write" /\ worker /\ canceled /\ exc = "none"
               /\ pc \in {"w_delete", "w_vacuum", "done"}) =>
            /\ \A n \in 1..idx :
                  LET it == items[to_save[n]] IN
                  /\ it.save_id \in DOMAIN items_tbl
                  /\ items_tbl[it.save_id] = Row(it)
            /\ pc \in {"w_vacuum", "done"} =>
                  to_delete \cap (DOMAIN items_tbl \cup DOMAIN sqlar_tbl) = {}
            /\ pc = "done" =>
                  /\ Finished = {Len(events)}
                  /\ events[Len(events)] = FinishedEv(FILENAME, <<>>)  )
    /\ [][ (op = "write" /\ worker /\ canceled) =>
            /\ pc = "w_loop" => idx' = idx
            /\ pc \in {"w_delete", "w_vacuum"} =>
                  /\ items' = items
                  /\ pc' \in {"w_vacuum", "done", "w_except"}
                  /\ \A k \in DOMAIN items_tbl' :
                        k \in DOMAIN items_tbl /\ items_tbl'[k] = items_tbl[k]
         ]_vars

\* a write() was cancelled before its last item, deleted a row and ended
C12_Witness ==
    /\ op = "write" /\ worker /\ canceled /\ pc = "done" /\ exc = "none"
    /\ idx < Len(to_save) /\ deleted # {}

\* C13: a _migrate() call that returns on a store at or above USER_VERSION
\* has executed no step and left the version as found; on a store at a
\* version N below it has executed the steps of N+1..USER_VERSION, each
\* once and ascending, and the store is at USER_VERSION; a call that raises
\* leaves the version as found (one transaction).
C13_Migration ==
    /\ migLog.ok =>
          IF migLog.from >= USER_VERSION
          THEN migLog.steps = <<>> /\ migLog.to = migLog.from
          ELSE /\ Len(migLog.steps) = USER_VERSION - migLog.from
               /\ \A i \in DOMAIN migLog.steps :
                     migLog.steps[i] = migLog.from + i
               /\ migLog.to = USER_VERSION
    /\ (migLog.ok /\ conn /\ ~tmpdir) => user_version = migLog.to
    /\ (migFailed /\ attempts = 0) =>
          ~migLog.ok /\ migLog.steps = <<>> /\ user_version = migLog.from

\* an archive of the previous version was migrated in place
C13_Witness ==
    /\ migLog.ok /\ conn /\ ~tmpdir
    /\ migLog.from = USER_VERSION - 1 /\ migLog.steps = <<USER_VERSION>>
    /\ user_version = USER_VERSION /\ file0.version = USER_VERSION - 1

\* C14: when _migrate() has raised in the connection establishment of the
\* first attempt, that same call has set create_new, dropped the failed
\* connection and returned with a usable one: no error is in flight.
C14_FallbackConnects ==
    (migFailed /\ attempts = 0 /\ pc # "done") =>
        create_new /\ conn /\ exc = "none"

\* C15: a write() on an engine with create_new and not readonly enters its
\* write sequence on an empty store with every item's save_id cleared;
\* after create_schema_on_new the store has the schema at USER_VERSION;
\* every row it ever holds is the row of a scene item, and when the run has
\* ended well the rows are exactly those of the items.
C15_NewFile ==
    (op = "write" /\ create_new /\ ~readonly /\ conn) =>
        /\ \A k \in DOMAIN items_tbl :
              \E i \in Range(items_for_save) :
                  items[i].save_id = k /\ items_tbl[k] = Row(items[i])
        /\ DOMAIN sqlar_tbl \subseteq DOMAIN items_tbl
        /\ pc = "w_schema" =>
              /\ items_tbl = EmptyFn /\ sqlar_tbl = EmptyFn
              /\ \A i \in Range(items_for_save) : items[i].save_id = 0
        /\ pc \in {"w_data", "w_loop", "w_delete", "w_vacuum", "done"} =>
              hasSchema /\ user_version = USER_VERSION
        /\ EndedWell("write") =>
              /\ SavedIds = DOMAIN items_tbl
              /\ Cardinality(SavedIds) = Len(items_for_save)

\* a scene with an item was saved as a new archive over an existing one
C15_Witness ==
    /\ EndedWell("write") /\ create_new /\ ~migFailed
    /\ file0.exists /\ file0.items # EmptyFn
    /\ SavedIds # {}

\* C16: only a readonly engine works on a temporary copy; while it does, the
\* file at the path is as it was when the run began and the session's store
\* is at USER_VERSION once _migrate() has returned; a readonly engine that
\* migrated without a copy has brought the file itself to USER_VERSION.
C16_ReadonlyMigration ==
    /\ tmpdir => readonly
    /\ (op = "read" /\ readonly) =>
          /\ tmpdir =>
                /\ FileState = file0
                /\ migLog.from < USER_VERSION
                /\ conn => migLog.ok /\ migLog.to = USER_VERSION
          /\ (conn /\ ~tmpdir /\ migLog.from < USER_VERSION) =>
                /\ user_version = USER_VERSION
                /\ items_tbl = file0.items /\ sqlar_tbl = file0.sqlar

\* a readonly load of an old archive that is not writable has ended well on
\* the temporary copy
C16_Witness ==
    /\ EndedWell("read") /\ readonly /\ tmpdir
    /\ Len(enq) > 0 /\ user_version < USER_VERSION

\* C17: an exception in flight is on its way to the boundary of read() or
\* write(); when the run has ended with one, the connection and the
\* temporary copy are closed and the failure went out once, as
\* finished(filename, [message]) under a worker and as BeeFileIOError
\* without one; without a worker no signal is ever emitted, and nothing is
\* raised to the caller of a run under a worker.
C17_Boundary ==
    /\ ~worker => events = <<>>
    /\ raised => ~worker /\ pc = "done" /\ exc # "none"
    /\ exc # "none" => pc \in {"w_except", "handler", "done"}
    /\ (pc = "done" /\ exc # "none") =>
          /\ ~conn /\ ~tmpdir
          /\ IF worker
             THEN /\ Finished = {Len(events)}
                  /\ events[Len(events)] = FinishedEv(FILENAME, <<exc>>)
             ELSE raised

\* a KeyError of write_data() was raised to a caller without a worker as
\* BeeFileIOError
C17_Witness ==
    /\ op = "write" /\ pc = "done" /\ exc = "KeyError"
    /\ ~worker /\ raised /\ ~conn

\* C18: every sqlar row belongs to an items row; once delete_items has run
\* in a write(), neither table holds a row for an id it deleted, and when
\* the write() has ended well the items rows are exactly those of the saved
\* items and of the Error items' originals.
C18_NoOrphans ==
    /\ DOMAIN sqlar_tbl \subseteq DOMAIN items_tbl
    /\ (op = "write" /\ pc \in {"w_vacuum", "done"} /\ exc = "none") =>
          deleted \cap (DOMAIN items_tbl \cup DOMAIN sqlar_tbl) = {}
    /\ EndedWell("write") =>
          DOMAIN items_tbl = SavedIds \cup (Keep \cap DOMAIN items_tbl)

\* a write() that deleted an image row and kept another row has ended well
C18_Witness ==
    /\ EndedWell("write")
    /\ deleted \cap DOMAIN file0.sqlar # {}
    /\ DOMAIN items_tbl # {}

\* C19: the pass of write_data() for an item that has a save_id leaves the
\* sqlar table and the set of items rows as they are, writes the item's
\* values into the row with its id and changes no other items row.
C19_UpdateFrame ==
    [][ (op = "write" /\ pc = "w_loop" /\ canceled' = canceled
           /\ items[to_save[idx]].save_id # 0) =>
          LET it == items[to_save[idx]] IN
          /\ sqlar_tbl' = sqlar_tbl
          /\ DOMAIN items_tbl' = DOMAIN items_tbl
          /\ \A k \in DOMAIN items_tbl :
                items_tbl'[k] = IF k = it.save_id THEN Row(it)
                                ELSE items_tbl[k]
      ]_vars

\* the row of a saved image item was updated and its blob is as it was
C19_Witness ==
    /\ op = "write" /\ ~create_new /\ attempts = 0
    /\ \E k \in SavedIds \cap fetched \cap DOMAIN items_tbl :
          /\ k \in DOMAIN file0.items /\ items_tbl[k] # file0.items[k]
          /\ k \in DOMAIN file0.sqlar /\ k \in DOMAIN sqlar_tbl
          /\ sqlar_tbl[k] = file0.sqlar[k]

\* C20: no two items of the scene (the queued ones included) carry the same
\* save_id other than None, and every row that a pass of write_data() has
\* inserted is the row of an item that carries its id, so that an item
\* without save_id has no row.
C20_UniqueIds ==
    /\ \A i, j \in DOMAIN add_queued_items :
          (i # j /\ add_queued_items[i].save_id # 0) =>
              add_queued_items[i].save_id # add_queued_items[j].save_id
    /\ (op = "write" /\ pc \in {"w_loop", "w_delete", "w_vacuum", "done"}
          /\ exc = "none") =>
          \A k \in DOMAIN items_tbl \ fetched :
              Cardinality({i \in DOMAIN items : items[i].save_id = k}) = 1

\* C22: the step that hands the finished signal of a save to
\* on_saving_finished marks the undo stack clean and sets the view's
\* filename to the saved path when the error list is empty, and leaves both
\* as they are when it is not.
C22_SaveFinished ==
    [][ (op = "write" /\ delivered' > delivered
           /\ events[delivered'].sig = "finished") =>
          LET e == events[delivered'] IN
          IF e.errors = <<>>
          THEN view' = [filename |-> e.filename, clean |-> TRUE]
          ELSE view' = view
      ]_vars

\* a save of a changed scene without filename has failed and its signal is
\* handled: the scene is still changed and without filename
C22_Witness ==
    /\ op = "write" /\ worker /\ pc = "done" /\ exc # "none"
    /\ Len(events) > 0 /\ delivered = Len(events)
    /\ ~view.clean /\ view.filename = ""

\* C21: for every item variant and every payload field, the item that
\* create_from_data builds from the output of get_extra_save_data gives that
\* same output again.
C21_PayloadInverse ==
    call.fn = "create_from_data" =>
        get_extra_save_data(call.out) = call.data

\* the path has the '.bee' extension: it ends in '.bee' and its last
\* component has a character other than a dot before that
HasBeeExtension(p) ==
    /\ Len(p) > Len(BeeExt)
    /\ SubSeq(p, Len(p) - Len(BeeExt) + 1, Len(p)) = BeeExt
    /\ \E i \in 1..(Len(p) - Len(BeeExt)) :
          /\ p[i] \notin {".", "/"}
          /\ \A j \in i..(Len(p) - Len(BeeExt)) : p[j] # "/"

\* C24: is_bee_file(path) is true exactly when the path has the '.bee'
\* extension and the file at the path, if there is one, begins with the 16
\* bytes of the SQLite signature.
C24_IsBeeFile ==
    call.fn = "is_bee_file" =>
        (call.out <=>
            /\ HasBeeExtension(call.path)
            /\ call.file.exists =>
                  /\ Len(call.file.content) >= HeaderLen
                  /\ \A i \in 1..HeaderLen :
                        call.file.content[i] = SQLiteHeader[i])

\* the number that a sequence of decimal digits stands for
RECURSIVE DecValue(_)
DecValue(d) ==
    IF d = <<>> THEN 0
    ELSE 10 * DecValue(SubSeq(d, 1, Len(d) - 1))
         + (CHOOSE n \in 0..9 : DigitChars[n + 1] = d[Len(d)])

\* C25: with id the item's save_id if it has one and the default otherwise,
\* get_filename_for_export raises and returns no name when there is no id;
\* else the name is the id in decimal digits, padded with zeros to four,
\* then '-' and the basename of the filename without its extension when
\* the item has a filename, then '.' and the format; the item's type makes
\* no difference.
C25_ExportName ==
    call.fn = "get_filename_for_export" =>
        LET id == IF call.item.save_id # 0 THEN call.item.save_id
                  ELSE call.save_id_default
            name == call.out.name
            rest == IF call.item.filename # <<>>
                    THEN <<"-">> \o splitext_root(basename(call.item.filename))
                         \o <<".">> \o call.imgformat
                    ELSE <<".">> \o call.imgformat
            k == Len(name) - Len(rest)
        IN IF id = NoDefault
           THEN call.out.raised /\ name = <<>>
           ELSE /\ ~call.out.raised
                /\ k >= PadWidth
                /\ SubSeq(name, k + 1, Len(name)) = rest
                /\ \A i \in 1..k : \E n \in 0..9 : name[i] = DigitChars[n + 1]
                /\ DecValue(SubSeq(name, 1, k)) = id
                /\ k > PadWidth => name[1] # "0"
                /\ call.out = get_filename_for_export(
                                  [call.item EXCEPT !.type = "pixmap"],
                                  call.imgformat, call.save_id_default)

\* an unsaved item with a source filename in a directory was named after
\* the default id
C25_Witness ==
    /\ call.fn = "get_filename_for_export"
    /\ call.item.save_id = 0 /\ call.save_id_default = 3
    /\ call.item.filename = <<"d", "/", "b", ".", "x", ".", "g">>
    /\ call.out = Returned(<<"0", "0", "0", "3", "-", "b", ".", "x", ".",
                             "p", "n", "g">>)

\* C26: after any sequence of update_from_data and do_flip calls an Error
\* item's flip() is 1, it is not flipped, and it is the item that the data
\* of its last update gives with flip = 1.
C26_ErrorNeverFlipped ==
    call.fn \in ErrorCalls =>
        /\ BeeErrorItem_flip(call.out) = 1
        /\ call.out.geo.flip = 1
        /\ call.out = Item(ErrorTYPE, 0, call.data.save_id,
                           [x |-> call.data.x, flip |-> 1])

\* an Error item was updated from data with flip = -1 and asked to flip
\* twice
C26_Witness ==
    /\ call.fn = "BeeErrorItem.do_flip" /\ call.requests = 3
    /\ call.data.flip = -1

\* the group of an item in the order of sort_by_filename
SortGroup(it) ==
    IF it.filename # <<>> THEN 1 ELSE IF it.save_id # 0 THEN 2 ELSE 3

\* C27: sort_by_filename returns a permutation of its input in which the
\* items with a filename come first, in the order of their filenames, then
\* those without filename and with a save_id, in the order of their
\* save_ids, then the others in the order of the input.
C27_SortByFilename ==
    call.fn = "sort_by_filename" =>
        LET out == call.out IN
        /\ Len(out) = Len(call.items)
        /\ \A n \in DOMAIN call.items :
              \E i \in DOMAIN out : out[i] = call.items[n]
        /\ \A i, j \in DOMAIN out :
              i < j =>
                  /\ SortGroup(out[i]) <= SortGroup(out[j])
                  /\ SortGroup(out[i]) = SortGroup(out[j]) =>
                        CASE SortGroup(out[i]) = 1 ->
                               StrLe(out[i].filename, out[j].filename)
                          [] SortGroup(out[i]) = 2 ->
                               out[i].save_id <= out[j].save_id
                          [] OTHER -> out[i].name < out[j].name

\* a list with an item of each group, given in the reverse order of the
\* groups
C27_Witness ==
    /\ call.fn = "sort_by_filename" /\ Len(call.items) = 3
    /\ SortGroup(call.items[1]) = 3 /\ SortGroup(call.items[2]) = 2
    /\ SortGroup(call.items[3]) = 1
    /\ call.out = <<call.items[3], call.items[2], call.items[1]>>

\* C28: when a write() that was not cancelled and met no store fault has
\* ended, it has reported no error and every item of items_for_save() has
\* exactly one items row under its save_id, whatever save_ids the items
\* carried when the write() began.
C28_StaleIdSaved ==
    (op = "write" /\ pc = "done" /\ ~canceled /\ ~readonly /\ attempts = 0) =>
        /\ exc = "none"
        /\ \A i \in Range(items_for_save) :
              Cardinality({k \in DOMAIN items_tbl : k = items[i].save_id}) = 1

\* on_saving_finished has handled the finished signal of the save and has
\* marked the undo stack clean
MarkedClean ==
    /\ op = "write" /\ worker /\ Len(events) > 0 /\ delivered = Len(events)
    /\ events[Len(events)].sig = "finished"
    /\ events[Len(events)].errors = <<>>
    /\ view.clean

\* C29: when a save has marked the undo stack clean, every item of
\* items_for_save() has a row in the archive, and the save was not cancelled
\* before its last item.
C29_CleanMeansSaved ==
    MarkedClean =>
        /\ \A i \in Range(items_for_save) :
              items[i].save_id \in DOMAIN items_tbl
        /\ ~(canceled /\ idx < Len(to_save))

\* C30: in a load under a worker every row that read() has put into the
\* deferred queue becomes a live item of the scene, whether the load ends
\* in success, by cancel or with an error.
C30_QueueDrained ==
    \A k \in 1..MaxRows :
        (op = "read" /\ worker /\ \E i \in DOMAIN queue : queue[i].save_id = k)
        ~> (\E i \in DOMAIN items :
               k \in {items[i].save_id, items[i].original_save_id})

\* a load under a worker has ended with an error after its first row was
\* enqueued, and the row is a live item
C30_Witness ==
    /\ op = "read" /\ worker /\ pc = "done" /\ exc = "ValueError"
    /\ Len(enq) = 1 /\ queue = <<>> /\ Len(items) = 1

\* C23: no two write workers of the view run on the same archive file at
\* the same time.
C23_SingleWriter ==
    \A w1, w2 \in workers :
        w1.id # w2.id => w1.filename # w2.filename


\* C31: after an open request whose load ended with errors or was cancelled,
\* and whose finished signal the view has handled, the view's filename is not
\* the path of the file that failed to load.
OpenFailed ==
    /\ op = "read" /\ worker /\ pc = "done"
    /\ Pending = {}
    /\ \/ canceled
       \/ \E n \in 1..Len(events) :
            events[n].sig = "finished" /\ events[n].errors # <<>>

C31_FilenameAfterFailedOpen == OpenFailed => view.filename # FILENAME

\* C32: for one GIF item at most one animation timer (a tick or its deferred
\* frame update) is pending at any time.
C32_OneTickPending == Timers(gif) <= 1

\* C33: when a scheduled timer fires on a paused GIF item, current_frame
\* stays as it was and no further timer is scheduled: the pending timers
\* are one fewer.
C33_PausedTickIdle ==
    [][(~gif.is_playing /\ gif'.last \in {"tick", "show_next"})
       => /\ gif'.current_frame = gif.current_frame
          /\ Timers(gif') = Timers(gif) - 1
          /\ ~gif'.is_playing]_vars

\* (a tick has fired on a paused item of several frames)
C33_Witness ==
    /\ gif.movie /\ gif.frame_count > 1
    /\ ~gif.is_playing /\ gif.last = "tick"

\* the rectangle lies on the pixmap and is not inverted
Inside(c, rect) ==
    /\ 0 <= rect.l /\ rect.l <= rect.r /\ rect.r <= c.width
    /\ 0 <= rect.t /\ rect.t <= rect.b /\ rect.b <= c.height

\* C34: in crop mode the temporary crop rectangle stays inside the pixmap
\* and is never inverted, and every CropItem command on the undo stack was
\* constructed with a rectangle inside the pixmap.
C34_CropInside ==
    /\ crop.crop_mode => Inside(crop, crop.crop_temp)
    /\ \A i \in DOMAIN crop.undo_stack :
         Inside(crop, crop.undo_stack[i].crop)

\* (a handle was dragged to a point beside the pixmap)
C34_Witness ==
    /\ crop.crop_mode
    /\ crop.last.op = "mouseMoveEvent" /\ crop.last.outside

\* the event asks to leave crop mode
ExitRequested(l) ==
    IF l.op = "keyPressEvent"
    THEN l.key \in {"Key_Return", "Key_Enter", "Key_Escape"}
    ELSE l.op = "mousePressEvent" /\ l.hit = "None"

\* ... with confirm=True
ExitConfirm(l) ==
    IF l.op = "keyPressEvent"
    THEN l.key \in {"Key_Return", "Key_Enter"}
    ELSE l.op = "mousePressEvent" /\ l.inside

\* C35: exit_crop_mode pushes a CropItem command exactly when confirm is
\* true and the temporary rectangle differs from the item's crop, else the
\* crop and the undo stack stay; afterwards crop_mode is false, crop_temp is
\* None and the scene's crop_item is None.
C35_ExitCropMode ==
    [][(crop.crop_mode /\ ExitRequested(crop'.last))
       => /\ IF ExitConfirm(crop'.last) /\ crop.crop_temp # crop.crop
             THEN /\ crop'.undo_stack =
                        Append(crop.undo_stack,
                               [crop |-> crop.crop_temp,
                                old_crop |-> crop.crop])
                  /\ crop'.crop = crop.crop_temp
             ELSE /\ crop'.undo_stack = crop.undo_stack
                  /\ crop'.crop = crop.crop
          /\ ~crop'.crop_mode
          /\ crop'.crop_temp = NoRect
          /\ ~crop'.scene_crop_item]_vars

\* (crop mode was left with a confirmation after the rectangle had been
\* changed: a CropItem command is on the undo stack)
C35_Witness ==
    /\ ~crop.crop_mode
    /\ ExitRequested(crop.last) /\ ExitConfirm(crop.last)
    /\ crop.undo_stack # <<>>
    /\ crop.crop # QRectF(0, 0, crop.width, crop.height)

\* C36: no InsertItems command remains on the undo stack for a draw item
\* that the view has removed from the scene because its stroke was empty or
\* too short.
C36_NoCommandForRemoved ==
    \A i \in DOMAIN draw.undo_stack :
        draw.undo_stack[i].item \notin draw.removed

\* what validate_url is to accept: scheme http or https, a host that is not
\* localhost, that resolves, and not to a private address
Acceptable(url) ==
    /\ url # NoSrc
    /\ url.scheme \in {"http", "https"}
    /\ url.hostname \notin {"localhost", "127.0.0.1"}
    /\ gethostbyname(url.hostname) # gaierror
    /\ LET addr == gethostbyname(url.hostname)
       IN /\ addr[1] # 10
          /\ addr # <<192, 168>>
          /\ ~(addr[1] = 172 /\ addr[2] \in 16..31)

====
